---- MODULE Spec2Model ----
(***************************************************************************)
(* A model of the telegram-dtv relay bot: the dispatch queue               *)
(* (src/utils/messageQueue.js), the circuit breaker of the production      *)
(* server, retryOperation, the session registry of BotService with the     *)
(* commands that write it, the message handler's routing between the      *)
(* operator-forward path and the AI backend, the operator's /answer with   *)
(* BotService.sendMessage, the /webhook route of the production server     *)
(* with its RateLimiter, the key-value storage adapters (MemoryStorage,    *)
(* RedisStorage), keepTypingIndicator, and InstanceManager with the        *)
(* bot_instances table.                                                    *)
(*                                                                         *)
(* JavaScript runs one callback at a time: every action below is one       *)
(* synchronous run of code, from the point a callback is entered to the    *)
(* next await / promise reaction.                                          *)
(***************************************************************************)
EXTENDS Integers, Sequences, FiniteSets, TLC

\* ------------------------------------------------------------------ bounds
\* Number of items handed to MessageQueue.add in one run.
MaxItems == 4
\* Largest concurrency limit a MessageQueue is constructed with.
MaxConcurrency == 2
\* Number of conversations (chat ids).
MaxChats == 2
\* Number of callers that can have an execute call outstanding at once.
MaxCalls == 3
\* Last instant of the clock; one tick is one unit of Date.now().
MaxTime == 3
\* resetTimeout of the breaker, in clock ticks.
ResetTimeout == 2
\* Cap on the breaker's failure counter.
MaxFailures == 4
\* Number of message-handler invocations that can be suspended at once.
MaxHandlers == 1
\* Number of threads the AI backend mints in one run.
MaxThreads == 2
\* Largest maxRetries a retryOperation call is made with (the default is 3).
MaxRetries == 3
\* Largest delay argument of retryOperation, in timer ticks.
MaxDelay == 2
\* Number of operator-contact messages one chat is shown in one run.
MaxContacts == 1
\* maxRequests of the webhook rate limiter (one client address).
RateLimit == 2
\* Last instant of the storage clock, in seconds.
MaxClock == 3
\* Largest ttl a key is stored with, in seconds.
MaxTtl == 2
\* Number of timers MemoryStorage arms in one run.
MaxTimers == 3
\* Number of keys in a storage.
MaxKeys == 1
\* Number of client addresses that call the rate limiter.
MaxClients == 2
\* Number of isRateLimited calls in one run.
MaxChecks == 4
\* Number of times the interval of one keepTypingIndicator call fires.
MaxIterations == 2
\* Number of bot processes started against one bot_instances table.
MaxInstances == 2
\* Number of hosts they run on.
MaxHosts == 2

\* --------------------------------------------------------------- constants
\* failureThreshold of the AI-backend breaker (openaiCircuitBreaker).
FailureThreshold == 3

Items == 1..MaxItems
Chats == 1..MaxChats
Callers == 1..MaxCalls
Handlers == 1..MaxHandlers
Threads == 1..MaxThreads
Keys == 1..MaxKeys
Clients == 1..MaxClients
\* windowMs of the rate limiter, in clock ticks.
WindowMs == 2
\* No isRateLimited call yet.
NoCheck == [ip |-> 0, limited |-> FALSE]
Iterations == 1..MaxIterations
\* maxRetries of the retryOperation call inside the interval callback.
TypingRetries == 2
Instances == 1..MaxInstances
Hosts == 1..MaxHosts
\* staleInstanceTimeout, in heartbeat periods (30000 ms / 10000 ms).
StaleTimeout == 3
\* No row in bot_instances.
NoInstanceRow == [present |-> FALSE, host |-> 0, age |-> 0]
\* No /answer yet.
NoAnswer == [chat |-> 0, inHandoff |-> FALSE, delivered |-> FALSE, refused |-> FALSE]
\* The two kinds of key the session cache (a Map) is used with: the numeric
\* msg.chat.id of a message and the string a command's pattern captured.
KeyKinds == {"num", "str"}
\* What a storage holds.
Values == {"v1", "v2"}
\* A key without an entry in a storage.
Missing == "missing"
\* No setEx of a key is in force.
NoSet == [value |-> Missing, at |-> 0, ttl |-> 0]
\* No get has been made yet.
NoRead == [by |-> "none", held |-> Missing, down |-> FALSE, result |-> "none"]

VARIABLES
    \* MessageQueue fields (messageQueue.js:15-20)
    queue,          \* this.queue: the waiting items, head first
    processing,     \* this.processing: the in-flight counter
    isProcessing,   \* this.isProcessing
    concurrency,    \* this.concurrency
    \* the environment of the queue
    chatOf,         \* message.chat.id of the i-th message handed to add
    stage,          \* per item: "new", "queued", "running", "settled", "finished"
    outcome,        \* per item: state of the promise add returned
    started,        \* the items whose processor was invoked, in invocation order
    \* CircuitBreaker fields (state, failures, lastFailureTime) and its callers
    cb,             \* the breaker object
    now,            \* Date.now()
    callPc,         \* per caller: "idle", "inflight", "rejected", "succeeded", "failed"
    trial,          \* per caller: its operation was started in state HALF-OPEN
    streak,         \* operations that failed since the last one that succeeded
    lastFailAt,     \* instant of the most recent failed operation
    \* BotService session state: a session object is identified by the thread
    \* id it was created with; 0 stands for "no entry"
    userThreads,    \* this.userThreads: chat -> session object
    sessionCache,   \* this.sessionCache: key kind -> chat -> session object
    handoffOf,      \* humanHandoff field of each session object
    minted,         \* number of threads created by the AI backend
    startPc,        \* per chat: "idle", or "creating" while /start awaits createThread
    ownerOf,        \* per thread: the chat whose /start stored it; 0 before that
    lastCmd,        \* the latest /handoff or /ai command and its reply, for as
                    \* long as the tiers are as that command left them
    lastWrite,      \* per chat: "on" / "off", the value the latest successful
                    \* setHumanHandoff wrote since the chat's latest /start
                    \* in this process; "none" if there is none
    assistantId,    \* openaiService.assistantId is set
    dbSessions,     \* the durable sessions table: chat -> row (thread_id,
                    \* human_handoff); thread 0 stands for "no row"
    \* the message handler, per invocation
    msgPc,          \* where the invocation is suspended
    msgChat,        \* msg.chat.id
    sawHandoff,     \* what isInHumanHandoff(chatId) returned to it
    threadUsed,     \* threadId it read from the session
    aiCalled,       \* it called addMessageToThread or runAssistantAndGetResponse
    route,          \* how it ended
    sendFailed,     \* an outbound Telegram call of this invocation rejected
    sent,           \* number of user-facing messages it delivered
    aiResult,       \* "none", or what the AI backend did for it: "text",
                    \* "blank" (the empty string) or "null" returned by
                    \* runAssistantAndGetResponse, "failed" when a backend
                    \* call threw after its retries
    \* one call of retryOperation (cache.js)
    rPc,            \* "idle", "calling", "waiting", "returned", "threw"
    maxRetries,     \* its maxRetries argument
    delay,          \* its delay argument
    attempt,        \* the loop variable
    lastError,      \* the local lastError; "undefined" until a catch sets it
    timer,          \* ticks left of the pending setTimeout
    opLog,          \* outcome of every invocation of operation, in order
    received,       \* what the caller got: the value returned or the error thrown
    \* what the bot has shown and logged, per chat
    contactShown,   \* operator-contact messages (button or link) sent to the chat
    systemEntries,  \* rows with role 'system' in the message log of the chat
    lastAnswer,     \* the latest /answer: its target, whether the target had a
                    \* session in handoff when it was handled, whether the
                    \* text was sent to the target, whether the operator was
                    \* told it cannot be sent
    \* ProductionServer and one POST /webhook request
    isShuttingDown, \* this.isShuttingDown
    hits,           \* RateLimiter: recent requests recorded for the client address
    whPc,           \* the request: "idle", "handling", "done"
    status,         \* the response written to it: "none", "200", "400", ...
    openRejected,   \* execute threw 'Circuit breaker is OPEN' for it
    dispatched,     \* its update was given to bot.handleUpdate
    \* MemoryStorage, the networked store, and one read
    store,          \* this.store: key -> value, Missing without an entry
    timeouts,       \* this.timeouts: key -> id of its timer, 0 without an entry
    timers,         \* the armed setTimeout callbacks: records (id, key, due)
    armed,          \* number of timers armed so far
    clock,          \* the time, in seconds
    lastSet,        \* per key: the latest setEx not followed by a del, or NoSet
    remote,         \* content of the networked store
    connected,      \* the networked store can be reached
    lastRead,       \* the latest get: who read, what was there, what it returned
    \* RateLimiter (one instance) and its callers
    requests,       \* this.requests: client -> recorded timestamps, oldest first
    admittedAt,     \* per client: the timestamps of the calls that returned false
    lastCheck,      \* the latest isRateLimited call: client and returned value
    checks,         \* number of isRateLimited calls made so far
    \* one call of keepTypingIndicator and its AbortSignal
    aborted,        \* signal.aborted
    intervalOn,     \* the setInterval timer is armed
    iterPc,         \* per firing of the interval: "idle" (not fired yet),
                    \* "sending", "waiting" (retry delay), "done", "stopped"
    tries,          \* per firing: attempts its retryOperation has made
    typingSent,     \* number of sendChatAction calls made by the callbacks
    atAbort,        \* the firings that were in progress when the signal
                    \* was aborted
    \* InstanceManager, one per bot process, and the bot_instances table
    instPc,         \* per process: "off", "delHost", "delStale", "insert",
                    \* "up" (registerInstance returned true), "refused"
                    \* (returned false), "exiting", "down"
    hostOf,         \* os.hostname() of the process; 0 before it starts
    dbReady,        \* dbService.isInitialized() in the process
    isRegistered,   \* this.isRegistered
    heartbeatOn,    \* this.heartbeatInterval is armed
    beaten,         \* the heartbeat timer fired in the current period
    botInstances    \* the table: instance -> row (hostname, age of
                    \* last_heartbeat in heartbeat periods)

queueVars == <<queue, processing, isProcessing, concurrency, chatOf, stage,
               outcome, started>>

breakerVars == <<cb, now, callPc, trial, streak, lastFailAt>>

sessionVars == <<userThreads, sessionCache, handoffOf, minted, startPc,
                 ownerOf, dbSessions, lastCmd, lastWrite, assistantId>>

handlerVars == <<msgPc, msgChat, sawHandoff, threadUsed, aiCalled, route,
                 sendFailed, sent, aiResult>>

retryVars == <<rPc, maxRetries, delay, attempt, lastError, timer, opLog,
               received>>

operatorVars == <<contactShown, systemEntries, lastAnswer>>

webhookVars == <<isShuttingDown, hits, whPc, status, openRejected, dispatched>>

storageVars == <<store, timeouts, timers, armed, clock, lastSet, remote,
                 connected, lastRead>>

limiterVars == <<requests, admittedAt, lastCheck, checks>>

typingVars == <<aborted, intervalOn, iterPc, tries, typingSent, atAbort>>

instanceVars == <<instPc, hostOf, dbReady, isRegistered, heartbeatOn, beaten,
                  botInstances>>

vars == <<queueVars, breakerVars, sessionVars, handlerVars, retryVars,
          operatorVars, webhookVars, storageVars,
                   limiterVars, typingVars, instanceVars>>

\* ------------------------------------------------------------ MessageQueue

\* Number of add calls made so far; item i is the i-th message added.
added == Len(chatOf)

\* The fields processQueue reads and writes, as one value.
QState ==
    [queue |-> queue, processing |-> processing,
     isProcessing |-> isProcessing, started |-> started]

\* The while loop of processQueue with the counter update dropped.
RECURSIVE DrainNoCount(_, _)
DrainNoCount(st, conc) ==
    IF Len(st.queue) > 0 /\ st.processing < conc
    THEN DrainNoCount([st EXCEPT !.queue = Tail(@),
                                 !.started = Append(@, Head(st.queue))], conc)
    ELSE st

\* The while loop of processQueue starting the head without shifting it.
RECURSIVE DrainKeepsHead(_, _)
DrainKeepsHead(st, conc) ==
    IF Len(st.queue) > 0 /\ st.processing < conc
    THEN DrainKeepsHead([st EXCEPT !.processing = @ + 1,
                                   !.started = Append(@, Head(st.queue))], conc)
    ELSE st

\* The while loop of processQueue: shift the head, count it, invoke its
\* processor (processItem runs synchronously up to the processor's first
\* await, so the invocation is part of this step).
RECURSIVE Drain(_, _)
Drain(st, conc) ==
    IF Len(st.queue) > 0 /\ st.processing < conc
    THEN Drain([st EXCEPT !.queue = Tail(@),
                          !.processing = @ + 1,
                          !.started = Append(@, Head(st.queue))], conc)
    ELSE st

\* The loop taking the newest item instead of the oldest.
RECURSIVE DrainLast(_, _)
DrainLast(st, conc) ==
    IF Len(st.queue) > 0 /\ st.processing < conc
    THEN DrainLast([st EXCEPT !.queue = SubSeq(@, 1, Len(@) - 1),
                              !.processing = @ + 1,
                              !.started = Append(@, st.queue[Len(st.queue)])],
                   conc)
    ELSE st

\* processQueue as a stack drain that always releases its flag.
ProcessQueueStack(st, conc) ==
    [DrainLast(st, conc) EXCEPT !.isProcessing = FALSE]

\* processQueue: returns at once when the flag is set; otherwise sets it,
\* drains, and clears it only if nothing is queued and nothing is in flight.
ProcessQueue(st, conc) ==
    IF st.isProcessing
    THEN st
    ELSE LET d == Drain([st EXCEPT !.isProcessing = TRUE], conc)
         IN  IF Len(d.queue) = 0 /\ d.processing = 0
             THEN [d EXCEPT !.isProcessing = FALSE]
             ELSE d

\* Write a processQueue result back to the fields; the items it started
\* are now running.
Install(st, base) ==
    /\ queue' = st.queue
    /\ processing' = st.processing
    /\ isProcessing' = st.isProcessing
    /\ started' = st.started
    /\ stage' = [j \in Items |->
                   IF base[j] = "queued"
                      /\ \E k \in 1..Len(st.started) : st.started[k] = j
                   THEN "running" ELSE base[j]]

\* add(message, processor): push, then start processQueue unless the flag
\* is set.
Add(i, c) ==
    /\ i = added + 1
    /\ stage[i] = "new"
    /\ chatOf' = Append(chatOf, c)
    /\ outcome' = [outcome EXCEPT ![i] = "pending"]
    /\ LET pushed == [QState EXCEPT !.queue = Append(@, i)]
           st == IF ~pushed.isProcessing
                 THEN ProcessQueue(pushed, concurrency)
                 ELSE pushed
       IN  Install(st, [stage EXCEPT ![i] = "queued"])
    /\ UNCHANGED <<concurrency, retryVars, breakerVars, sessionVars, handlerVars,
                   operatorVars, webhookVars, storageVars,
                   limiterVars, typingVars, instanceVars>>

\* processItem after the await: the processor's promise fulfilled, so
\* item.resolve(result).
ProcessorResolves(i) ==
    /\ stage[i] = "running"
    /\ stage' = [stage EXCEPT ![i] = "settled"]
    /\ outcome' = [outcome EXCEPT ![i] = "resolved"]
    /\ UNCHANGED <<queue, processing, isProcessing, concurrency, chatOf, started>>
    /\ UNCHANGED <<retryVars, breakerVars, sessionVars, handlerVars,
                   operatorVars, webhookVars, storageVars,
                   limiterVars, typingVars, instanceVars>>

\* processItem's catch: the processor threw or rejected, so item.reject(error).
ProcessorRejects(i) ==
    /\ stage[i] = "running"
    /\ stage' = [stage EXCEPT ![i] = "settled"]
    /\ outcome' = [outcome EXCEPT ![i] = "rejected"]
    /\ UNCHANGED <<queue, processing, isProcessing, concurrency, chatOf, started>>
    /\ UNCHANGED <<retryVars, breakerVars, sessionVars, handlerVars,
                   operatorVars, webhookVars, storageVars,
                   limiterVars, typingVars, instanceVars>>

\* The .finally callback of processQueue: release the counter, call
\* processQueue again.
ItemFinally(i) ==
    /\ stage[i] = "settled"
    /\ LET st == ProcessQueue([QState EXCEPT !.processing = @ - 1], concurrency)
       IN  Install(st, [stage EXCEPT ![i] = "finished"])
    /\ UNCHANGED <<concurrency, chatOf, outcome, retryVars, breakerVars, sessionVars,
                   handlerVars,
                   operatorVars, webhookVars, storageVars,
                   limiterVars, typingVars, instanceVars>>

InitQueue ==
    /\ queue = <<>>
    /\ processing = 0
    /\ isProcessing = FALSE
    /\ concurrency \in 1..MaxConcurrency
    /\ chatOf = <<>>
    /\ stage = [i \in Items |-> "new"]
    /\ outcome = [i \in Items |-> "none"]
    /\ started = <<>>

NextQueue ==
    \E i \in Items :
        \/ \E c \in Chats : Add(i, c)
        \/ ProcessorResolves(i)
        \/ ProcessorRejects(i)
        \/ ItemFinally(i)

\* ---------------------------------------------------- MessageQueue claims

\* Items whose processor has been invoked and has not completed yet.
RunningItems == {i \in Items : stage[i] = "running"}

\* Nothing is in flight and no completion callback is pending: the only
\* code that can still run is a new call of add.
Quiescent == \A i \in Items : stage[i] \notin {"running", "settled"}

Settled(i) == outcome[i] \in {"resolved", "rejected"}

WasStarted(i) == \E k \in 1..Len(started) : started[k] = i

StartPos(i) == CHOOSE k \in 1..Len(started) : started[k] = i

\* C2: the number of processors that were started and have not finished
\* never exceeds the concurrency limit.
C2_InFlightWithinLimit == Cardinality(RunningItems) <= concurrency

\* C2 witness: the limit is reached while another item has to wait.
C2_LimitReachedWitness ==
    /\ Cardinality(RunningItems) = concurrency
    /\ Len(queue) > 0

\* C3: every item passed to add has its processor invoked and its promise
\* settled once every invoked processor has completed.  Stated on the
\* quiescent states: when every invoked processor has completed and its
\* completion callback has run, no added item is left unsettled.
C3_EveryItemSettles ==
    Quiescent => \A i \in 1..added : Settled(i)

\* C4: when an in-flight item completes (its .finally callback runs) and an
\* item is waiting, the head of the queue begins processing in that step.
C4_CompletionStartsHead ==
    [][\A i \in Items :
          (stage[i] = "settled" /\ stage'[i] = "finished" /\ Len(queue) > 0)
              => stage'[Head(queue)] = "running"]_vars

\* C5: an item added while fewer than `concurrency` items are in flight
\* starts processing within the add call.
C5_StartsBelowLimit ==
    [][\A i \in Items :
          (stage[i] = "new" /\ stage'[i] # "new" /\ processing < concurrency)
              => stage'[i] = "running"]_vars

\* C6: after the processor of one item has rejected, every other item that
\* was added is still processed and settled: once the rejected item has
\* completed and nothing else is in flight, no other item is left waiting.
C6_RejectionDoesNotHaltQueue ==
    \A i \in Items :
        (outcome[i] = "rejected" /\ Quiescent)
            => \A j \in (1..added) \ {i} : Settled(j)

QueueCount(i) == Cardinality({k \in 1..Len(queue) : queue[k] = i})

StartCount(i) == Cardinality({k \in 1..Len(started) : started[k] = i})

\* Items taken from the queue whose promise is still pending.
InFlightItems == {i \in Items : StartCount(i) = 1 /\ outcome[i] = "pending"}

\* Items taken from the queue whose .finally callback has not run yet.
CountedItems == {i \in Items : StartCount(i) = 1 /\ stage[i] # "finished"}

\* Every added item is waiting, in flight or settled, and only one of
\* them; an item not added yet is none of them.
ExactlyOneState ==
    \A i \in Items :
        IF i \in 1..added
        THEN \/ QueueCount(i) = 1 /\ StartCount(i) = 0 /\ outcome[i] = "pending"
             \/ QueueCount(i) = 0 /\ StartCount(i) = 1 /\ outcome[i] = "pending"
             \/ QueueCount(i) = 0 /\ StartCount(i) = 1 /\ Settled(i)
        ELSE QueueCount(i) = 0 /\ StartCount(i) = 0 /\ outcome[i] = "none"

\* A processor is invoked once at most and a promise settles once at most.
OnceOnly ==
    \A i \in Items :
        /\ StartCount(i) = 1 => StartCount(i)' = 1
        /\ Settled(i) => outcome'[i] = outcome[i]

\* C35 as stated: no item is lost or duplicated (each added item is in
\* exactly one of waiting, in flight, settled; processor invoked and promise
\* settled at most once) and the processing counter equals the number of
\* in-flight items at all times.
C35_CounterEqualsInFlight ==
    /\ [](ExactlyOneState /\ processing = Cardinality(InFlightItems))
    /\ [][OnceOnly]_vars

\* C35, amended: no item is lost or duplicated, and the processing counter
\* equals the number of items taken from the queue whose completion
\* callback has not run yet (the in-flight items and the items settled but
\* not yet released); it is never negative.
C35_NoLossNoDuplication ==
    /\ [](/\ ExactlyOneState
          /\ processing = Cardinality(CountedItems)
          /\ InFlightItems \subseteq CountedItems
          /\ processing >= 0)
    /\ [][OnceOnly]_vars

\* C35 witness: one item waits while another has settled and its slot is
\* not released yet.
C35_SettledNotReleasedWitness ==
    \E i, k \in 1..added :
        /\ QueueCount(i) = 1
        /\ Settled(k) /\ k \in CountedItems
        /\ processing = 1

\* ---------------------------------------------------------- CircuitBreaker

\* isOpen(): an OPEN breaker whose resetTimeout has elapsed since the last
\* failure becomes HALF-OPEN and lets the call pass; HALF-OPEN and CLOSED
\* let every call pass.
IsOpen(b, t) ==
    IF b.state = "OPEN"
    THEN IF t - b.lastFailureTime >= ResetTimeout
         THEN [open |-> FALSE, cb |-> [b EXCEPT !.state = "HALF-OPEN"]]
         ELSE [open |-> TRUE, cb |-> b]
    ELSE [open |-> FALSE, cb |-> b]

\* onSuccess() that forgets to reset the failure counter.
OnSuccessKeepsCount(b) == [b EXCEPT !.state = "CLOSED"]

\* onSuccess()
OnSuccess(b) == [b EXCEPT !.failures = 0, !.state = "CLOSED"]

\* onFailure() opening one failure before the threshold.
OnFailureOpensEarly(b, t) ==
    [b EXCEPT !.failures = @ + 1,
              !.lastFailureTime = t,
              !.state = IF b.failures + 2 >= FailureThreshold THEN "OPEN" ELSE @]

\* onFailure() opening only above the threshold.
OnFailureAboveThreshold(b, t) ==
    [b EXCEPT !.failures = @ + 1,
              !.lastFailureTime = t,
              !.state = IF b.failures + 1 > FailureThreshold THEN "OPEN" ELSE @]

\* onFailure()
OnFailure(b, t) ==
    [b EXCEPT !.failures = @ + 1,
              !.lastFailureTime = t,
              !.state = IF b.failures + 1 >= FailureThreshold THEN "OPEN" ELSE @]

\* execute(operation) up to the await: throw when isOpen(), otherwise
\* invoke the operation.
Execute(c) ==
    /\ callPc[c] # "inflight"
    /\ LET r == IsOpen(cb, now)
       IN  /\ cb' = r.cb
           /\ callPc' = [callPc EXCEPT ![c] = IF r.open THEN "rejected"
                                                         ELSE "inflight"]
           /\ trial' = [trial EXCEPT ![c] = ~r.open /\ r.cb.state = "HALF-OPEN"]
    /\ UNCHANGED <<now, streak, lastFailAt, queueVars, retryVars, sessionVars, handlerVars,
                   operatorVars, webhookVars, storageVars,
                   limiterVars, typingVars, instanceVars>>

\* execute after the await, the operation fulfilled: onSuccess().
OperationSucceeds(c) ==
    /\ callPc[c] = "inflight"
    /\ cb' = OnSuccess(cb)
    /\ callPc' = [callPc EXCEPT ![c] = "succeeded"]
    /\ streak' = 0
    /\ UNCHANGED <<now, trial, lastFailAt, queueVars, retryVars, sessionVars, handlerVars,
                   operatorVars, webhookVars, storageVars,
                   limiterVars, typingVars, instanceVars>>

\* execute's catch, the operation rejected: onFailure(), rethrow.
OperationFails(c) ==
    /\ callPc[c] = "inflight"
    /\ cb.failures < MaxFailures
    /\ cb' = OnFailure(cb, now)
    /\ callPc' = [callPc EXCEPT ![c] = "failed"]
    /\ streak' = streak + 1
    /\ lastFailAt' = now
    /\ UNCHANGED <<now, trial, queueVars, retryVars, sessionVars, handlerVars,
                   operatorVars, webhookVars, storageVars,
                   limiterVars, typingVars, instanceVars>>

\* Time passes.
Tick ==
    /\ now < MaxTime
    /\ now' = now + 1
    /\ UNCHANGED <<cb, callPc, trial, streak, lastFailAt, queueVars, retryVars, sessionVars,
                   handlerVars,
                   operatorVars, webhookVars, storageVars,
                   limiterVars, typingVars, instanceVars>>

\* The constructor. lastFailureTime is null, which Date.now() - null reads
\* as 0; it is read only in state OPEN, after onFailure has set it.
InitBreaker ==
    /\ cb = [state |-> "CLOSED", failures |-> 0, lastFailureTime |-> 0]
    /\ now = 0
    /\ callPc = [c \in Callers |-> "idle"]
    /\ trial = [c \in Callers |-> FALSE]
    /\ streak = 0
    /\ lastFailAt = 0

NextBreaker ==
    \/ \E c \in Callers :
        \/ Execute(c)
        \/ OperationSucceeds(c)
        \/ OperationFails(c)
    \/ Tick

\* --------------------------------------------------- CircuitBreaker claims

\* The last FailureThreshold operations all failed and resetTimeout has not
\* elapsed since the last of them.
RecentlyTripped ==
    /\ streak >= FailureThreshold
    /\ now - lastFailAt < ResetTimeout

TrialsInFlight == {c \in Callers : callPc[c] = "inflight" /\ trial[c]}

\* C8: after failureThreshold consecutive failed operations the breaker is
\* OPEN, and until resetTimeout has elapsed since the last failure no call
\* of execute invokes the underlying operation: each is rejected with the
\* breaker-open error.
C8_OpenFailsFast ==
    /\ [](RecentlyTripped => cb.state = "OPEN")
    /\ [][RecentlyTripped =>
            \A c \in Callers :
                /\ callPc'[c] = "inflight" => callPc[c] = "inflight"
                /\ (callPc[c] = "idle" /\ callPc'[c] # "idle")
                       => callPc'[c] = "rejected"]_vars

\* C8 witness: the breaker has just opened after FailureThreshold failures
\* in a row and a call made within resetTimeout was rejected.
C8_RejectedWhileOpenWitness ==
    /\ RecentlyTripped
    /\ cb.state = "OPEN"
    /\ \E c \in Callers : callPc[c] = "rejected"

\* C9: once the breaker has opened and resetTimeout has elapsed, one call
\* goes through as the trial call, and no other call reaches the operation
\* while that trial call is in flight.
C9_SingleTrialCall == Cardinality(TrialsInFlight) <= 1

\* C10: OPEN turns into HALF-OPEN only in a call of execute made at least
\* resetTimeout after the last failure; a trial call that succeeds in
\* HALF-OPEN gives CLOSED with failures = 0; one that fails gives OPEN.
C10_TransitionRules ==
    [][/\ (cb.state = "OPEN" /\ cb'.state = "HALF-OPEN")
            => /\ now - lastFailAt >= ResetTimeout
               /\ \E c \in Callers : callPc[c] # "inflight" /\ callPc'[c] = "inflight"
       /\ \A c \in Callers :
            (cb.state = "HALF-OPEN" /\ trial[c] /\ callPc[c] = "inflight")
                => /\ callPc'[c] = "succeeded"
                        => (cb'.state = "CLOSED" /\ cb'.failures = 0)
                   /\ callPc'[c] = "failed" => cb'.state = "OPEN"]_vars

\* C10 witness: a trial call succeeded and closed the breaker again.
C10_TrialClosedWitness ==
    /\ cb.state = "CLOSED"
    /\ cb.failures = 0
    /\ \E c \in Callers : trial[c] /\ callPc[c] = "succeeded"

\* C33: in every reachable state, OPEN implies failures >= failureThreshold
\* and CLOSED implies failures < failureThreshold.
C33_StateMatchesFailureCount ==
    /\ cb.state = "OPEN" => cb.failures >= FailureThreshold
    /\ cb.state = "CLOSED" => cb.failures < FailureThreshold

\* C33 witness: the breaker is OPEN after more failures than the threshold
\* (operations that were in flight when it opened failed too) while
\* another operation is still in flight.
C33_OpenWithCallsInFlightWitness ==
    /\ cb.state = "OPEN"
    /\ cb.failures > FailureThreshold
    /\ \E c \in Callers : callPc[c] = "inflight"

\* C34: with several execute calls in flight, the breaker leaves OPEN only
\* through HALF-OPEN: no step takes it from OPEN to CLOSED or lowers the
\* failure count of an OPEN breaker, and OPEN becomes HALF-OPEN only once
\* resetTimeout has elapsed since the last failure.
C34_OpenLeftOnlyThroughHalfOpen ==
    [][cb.state = "OPEN" =>
            /\ cb'.state \in {"OPEN", "HALF-OPEN"}
            /\ cb'.failures >= cb.failures
            /\ cb'.state = "HALF-OPEN" => now - cb.lastFailureTime >= ResetTimeout]_vars

\* ------------------------------------------------- BotService session state

\* No operator command to report.
NoCmd == [chat |-> 0, enabled |-> FALSE, reply |-> "none"]

\* getUserThread(chatId): the cache entry under this key if there is one,
\* else the in-memory session, which is then cached under this key, else
\* null (useDatabase is false in this service, so the durable tier is not
\* consulted).  Returns the session found and the cache afterwards.
GetUserThread(ut, cache, k, c) ==
    IF cache[k][c] # 0
    THEN [thread |-> cache[k][c], cache |-> cache]
    ELSE IF ut[c] # 0
         THEN [thread |-> ut[c], cache |-> [cache EXCEPT ![k][c] = ut[c]]]
         ELSE [thread |-> 0, cache |-> cache]

\* this.useDatabase: the constructor sets it to false and no code assigns
\* it again.
useDatabase == FALSE

\* No row for a chat in the durable sessions table.
NoRow == [thread |-> 0, handoff |-> FALSE]

\* isInHumanHandoff(chatId): thread?.humanHandoff || false
IsInHumanHandoff(g, ho) == g.thread # 0 /\ ho[g.thread]

\* /start storing a session under the next thread id before createThread
\* has returned.
StartBeginStoresEarly(c) ==
    /\ assistantId
    /\ startPc[c] = "idle"
    /\ minted < MaxThreads
    /\ startPc' = [startPc EXCEPT ![c] = "creating"]
    /\ userThreads' = [userThreads EXCEPT ![c] = minted + 1]
    /\ UNCHANGED <<sessionCache, handoffOf, minted, ownerOf, dbSessions, lastCmd,
                   lastWrite, assistantId>>
    /\ UNCHANGED <<queueVars, retryVars, breakerVars, handlerVars,
                   operatorVars, webhookVars, storageVars,
                   limiterVars, typingVars, instanceVars>>

\* /start up to the await of openaiService.createThread().
StartBegin(c) ==
    /\ assistantId
    /\ startPc[c] = "idle"
    /\ startPc' = [startPc EXCEPT ![c] = "creating"]
    /\ UNCHANGED <<userThreads, sessionCache, handoffOf, minted, ownerOf, dbSessions, lastCmd,
                   lastWrite, assistantId>>
    /\ UNCHANGED <<queueVars, retryVars, breakerVars, handlerVars,
                   operatorVars, webhookVars, storageVars,
                   limiterVars, typingVars, instanceVars>>

\* /start after createThread returned: storeUserThread(chatId, threadId)
\* puts one new session object in the memory map and in the cache, and
\* writes the durable row only under `if (this.useDatabase)`.
StartStore(c) ==
    /\ startPc[c] = "creating"
    /\ minted < MaxThreads
    /\ minted' = minted + 1
    /\ userThreads' = [userThreads EXCEPT ![c] = minted + 1]
    /\ sessionCache' = [sessionCache EXCEPT !["num"][c] = minted + 1]
    /\ handoffOf' = [handoffOf EXCEPT ![minted + 1] = FALSE]
    /\ startPc' = [startPc EXCEPT ![c] = "idle"]
    /\ ownerOf' = [ownerOf EXCEPT ![minted + 1] = c]
    /\ lastCmd' = NoCmd
    /\ lastWrite' = [lastWrite EXCEPT ![c] = "none"]
    /\ dbSessions' = IF useDatabase
                     THEN [dbSessions EXCEPT ![c] = [thread |-> minted + 1,
                                                     handoff |-> FALSE]]
                     ELSE dbSessions
    /\ UNCHANGED assistantId
    /\ UNCHANGED <<queueVars, retryVars, breakerVars, handlerVars,
                   operatorVars, webhookVars, storageVars,
                   limiterVars, typingVars, instanceVars>>

\* /start when createThread threw: the catch reports the failure.
StartFails(c) ==
    /\ startPc[c] = "creating"
    /\ startPc' = [startPc EXCEPT ![c] = "idle"]
    /\ UNCHANGED <<userThreads, sessionCache, handoffOf, minted, ownerOf, dbSessions, lastCmd,
                   lastWrite, assistantId>>
    /\ UNCHANGED <<queueVars, retryVars, breakerVars, handlerVars,
                   operatorVars, webhookVars, storageVars,
                   limiterVars, typingVars, instanceVars>>

\* setHumanHandoff flipping the flag instead of assigning `enabled`.
SetHumanHandoffToggles(ut, cache, ho, k, c, enabled) ==
    LET got == GetUserThread(ut, cache, k, c)
    IN  IF got.thread = 0
        THEN [ok |-> FALSE, cache |-> got.cache, handoffOf |-> ho]
        ELSE [ok |-> TRUE,
              cache |-> [got.cache EXCEPT ![k][c] = got.thread],
              handoffOf |-> [ho EXCEPT ![got.thread] = ~ho[got.thread]]]

\* setHumanHandoff without the `if (!thread) return false` answer: it
\* reports success also when there is no session.
SetHumanHandoffNoCheck(ut, cache, ho, k, c, enabled) ==
    LET got == GetUserThread(ut, cache, k, c)
    IN  IF got.thread = 0
        THEN [ok |-> TRUE, cache |-> got.cache, handoffOf |-> ho]
        ELSE [ok |-> TRUE,
              cache |-> [got.cache EXCEPT ![k][c] = got.thread],
              handoffOf |-> [ho EXCEPT ![got.thread] = enabled]]

\* setHumanHandoff(chatId, enabled): false when getUserThread finds no
\* session; otherwise sets the flag of the session object found, caches
\* that object under this key and returns true.
SetHumanHandoff(ut, cache, ho, k, c, enabled) ==
    LET got == GetUserThread(ut, cache, k, c)
    IN  IF got.thread = 0
        THEN [ok |-> FALSE, cache |-> got.cache, handoffOf |-> ho]
        ELSE [ok |-> TRUE,
              cache |-> [got.cache EXCEPT ![k][c] = got.thread],
              handoffOf |-> [ho EXCEPT ![got.thread] = enabled]]

\* The operator commands /handoff <chat> (enabled) and /ai <chat> (not
\* enabled): hasActiveThread, then setHumanHandoff, and the reply to the
\* operator.  The chat id is the string the command's pattern captured.
HandoffCommand(c, enabled) ==
    /\ LET has == GetUserThread(userThreads, sessionCache, "str", c)
           set == SetHumanHandoff(userThreads, has.cache, handoffOf, "str", c,
                                  enabled)
       IN  IF has.thread = 0
           THEN /\ sessionCache' = has.cache
                /\ UNCHANGED handoffOf
                /\ lastCmd' = [chat |-> c, enabled |-> enabled,
                               reply |-> "missing"]
                /\ UNCHANGED lastWrite
           ELSE /\ sessionCache' = set.cache
                /\ handoffOf' = set.handoffOf
                /\ lastCmd' = [chat |-> c, enabled |-> enabled,
                               reply |-> IF set.ok THEN "done" ELSE "failed"]
                /\ lastWrite' = IF set.ok
                                THEN [lastWrite EXCEPT ![c] =
                                         IF enabled THEN "on" ELSE "off"]
                                ELSE lastWrite
    /\ UNCHANGED <<userThreads, minted, startPc, ownerOf, dbSessions, assistantId>>
    /\ UNCHANGED <<queueVars, retryVars, breakerVars, handlerVars,
                   operatorVars, webhookVars, storageVars,
                   limiterVars, typingVars, instanceVars>>

\* A cache entry is older than the cache's ttl: get deletes it.
CacheExpires(k, c) ==
    /\ sessionCache[k][c] # 0
    /\ sessionCache' = [sessionCache EXCEPT ![k][c] = 0]
    /\ lastCmd' = NoCmd
    /\ UNCHANGED <<userThreads, handoffOf, minted, startPc, ownerOf, dbSessions, lastWrite,
                   assistantId>>
    /\ UNCHANGED <<queueVars, retryVars, breakerVars, handlerVars,
                   operatorVars, webhookVars, storageVars,
                   limiterVars, typingVars, instanceVars>>

\* createOrGetAssistant could not retrieve the configured assistant: the id
\* is cleared before a new assistant is created.
AssistantRetrieveFails ==
    /\ assistantId
    /\ assistantId' = FALSE
    /\ UNCHANGED <<userThreads, sessionCache, handoffOf, minted, startPc, ownerOf, dbSessions,
                   lastCmd, lastWrite>>
    /\ UNCHANGED <<queueVars, retryVars, breakerVars, handlerVars,
                   operatorVars, webhookVars, storageVars,
                   limiterVars, typingVars, instanceVars>>

\* createOrGetAssistant created a new assistant and stored its id.
AssistantCreated ==
    /\ ~assistantId
    /\ assistantId' = TRUE
    /\ UNCHANGED <<userThreads, sessionCache, handoffOf, minted, startPc, ownerOf, dbSessions,
                   lastCmd, lastWrite>>
    /\ UNCHANGED <<queueVars, retryVars, breakerVars, handlerVars,
                   operatorVars, webhookVars, storageVars,
                   limiterVars, typingVars, instanceVars>>

\* The process is stopped and started again: every object of the process
\* is constructed anew (BotService's map and cache, the queue, the breaker,
\* pending handlers, retries and requests, MemoryStorage and its timers are
\* gone).  What lives outside the process stays: the threads the AI backend
\* has minted, the durable tables, the networked store, what users were
\* shown, the clocks, the configured concurrency.
Restart ==
    /\ userThreads' = [c \in Chats |-> 0]
    /\ sessionCache' = [k \in KeyKinds |-> [c \in Chats |-> 0]]
    /\ handoffOf' = [t \in Threads |-> FALSE]
    /\ startPc' = [c \in Chats |-> "idle"]
    /\ lastCmd' = NoCmd
    /\ lastWrite' = [c \in Chats |-> "none"]
    /\ assistantId' \in BOOLEAN
    /\ UNCHANGED <<minted, ownerOf, dbSessions>>
    /\ UNCHANGED <<contactShown, systemEntries>>
    /\ lastAnswer' = NoAnswer
    /\ isShuttingDown' = FALSE
    /\ hits' = 0
    /\ whPc' = "idle"
    /\ status' = "none"
    /\ openRejected' = FALSE
    /\ dispatched' = FALSE
    /\ store' = [k \in Keys |-> Missing]
    /\ timeouts' = [k \in Keys |-> 0]
    /\ timers' = {}
    /\ lastSet' = [k \in Keys |-> NoSet]
    /\ lastRead' = NoRead
    /\ UNCHANGED <<armed, clock, remote, connected>>
    /\ requests' = [ip \in Clients |-> <<>>]
    /\ lastCheck' = NoCheck
    /\ UNCHANGED <<admittedAt, checks>>
    /\ aborted' = FALSE
    /\ intervalOn' = FALSE
    /\ iterPc' = [i \in Iterations |-> "idle"]
    /\ tries' = [i \in Iterations |-> 0]
    /\ atAbort' = {}
    /\ UNCHANGED <<typingSent, instanceVars>>
    /\ msgPc' = [h \in Handlers |-> "idle"]
    /\ msgChat' = [h \in Handlers |-> 1]
    /\ sawHandoff' = [h \in Handlers |-> FALSE]
    /\ threadUsed' = [h \in Handlers |-> 0]
    /\ aiCalled' = [h \in Handlers |-> FALSE]
    /\ route' = [h \in Handlers |-> "none"]
    /\ sendFailed' = [h \in Handlers |-> FALSE]
    /\ sent' = [h \in Handlers |-> 0]
    /\ aiResult' = [h \in Handlers |-> "none"]
    /\ queue' = <<>>
    /\ processing' = 0
    /\ isProcessing' = FALSE
    /\ chatOf' = <<>>
    /\ stage' = [i \in Items |-> "new"]
    /\ outcome' = [i \in Items |-> "none"]
    /\ started' = <<>>
    /\ cb' = [state |-> "CLOSED", failures |-> 0, lastFailureTime |-> 0]
    /\ callPc' = [c \in Callers |-> "idle"]
    /\ trial' = [c \in Callers |-> FALSE]
    /\ streak' = 0
    /\ lastFailAt' = 0
    /\ rPc' = "idle"
    /\ maxRetries' = 1
    /\ delay' = 1
    /\ attempt' = 1
    /\ lastError' = "undefined"
    /\ timer' = 0
    /\ opLog' = <<>>
    /\ received' = "none"
    /\ UNCHANGED <<concurrency, now>>

InitSession ==
    /\ userThreads = [c \in Chats |-> 0]
    /\ sessionCache = [k \in KeyKinds |-> [c \in Chats |-> 0]]
    /\ handoffOf = [t \in Threads |-> FALSE]
    /\ minted = 0
    /\ startPc = [c \in Chats |-> "idle"]
    /\ ownerOf = [t \in Threads |-> 0]
    /\ lastCmd = NoCmd
    /\ lastWrite = [c \in Chats |-> "none"]
    /\ assistantId \in BOOLEAN
    /\ dbSessions = [c \in Chats |-> NoRow]

NextSession ==
    \/ \E c \in Chats :
        \/ StartBegin(c)
        \/ StartStore(c)
        \/ StartFails(c)
        \/ \E enabled \in BOOLEAN : HandoffCommand(c, enabled)
        \/ \E k \in KeyKinds : CacheExpires(k, c)
    \/ AssistantRetrieveFails
    \/ AssistantCreated
    \/ Restart

\* ------------------------------------------------- operator answers, contact

\* BotService.sendMessage(chatId, text, role), every Telegram call
\* succeeding: a text with the transfer phrase is followed by
\* sendOperatorContact, whose two log rows (logOperatorTransfer's and the
\* 'Operator contact button sent' one, both with role 'system') are written
\* only with a database; any other text is logged with its role, again only
\* with a database.
SendMessage(shown, entries, c, role, transfer) ==
    IF transfer
    THEN [shown |-> [shown EXCEPT ![c] = @ + 1],
          entries |-> IF useDatabase THEN [entries EXCEPT ![c] = @ + 2]
                                     ELSE entries]
    ELSE [shown |-> shown,
          entries |-> IF useDatabase /\ role = "system"
                      THEN [entries EXCEPT ![c] = @ + 1] ELSE entries]

\* /answer <chat> <text> as registered with botService.sendMessage: the text
\* goes to the chat when it has a session in handoff.
AnswerCommand(c, transfer) ==
    /\ contactShown[c] < MaxContacts
    /\ LET has == GetUserThread(userThreads, sessionCache, "str", c)
           hand == GetUserThread(userThreads, has.cache, "str", c)
           out == SendMessage(contactShown, systemEntries, c, "system",
                              transfer)
       IN  /\ sessionCache' = hand.cache
           /\ lastCmd' = IF hand.cache = sessionCache THEN lastCmd ELSE NoCmd
           /\ IF has.thread # 0 /\ IsInHumanHandoff(hand, handoffOf)
              THEN /\ contactShown' = out.shown
                   /\ systemEntries' = out.entries
              ELSE UNCHANGED <<contactShown, systemEntries>>
           /\ lastAnswer' =
                 LET now1 == GetUserThread(userThreads, sessionCache, "num", c)
                     ok == has.thread # 0 /\ IsInHumanHandoff(hand, handoffOf)
                 IN  [chat |-> c,
                      inHandoff |-> now1.thread # 0
                                      /\ IsInHumanHandoff(now1, handoffOf),
                      delivered |-> ok,
                      refused |-> ~ok]
    /\ UNCHANGED <<userThreads, handoffOf, minted, startPc, ownerOf, dbSessions,
                   lastWrite, assistantId>>
    /\ UNCHANGED <<queueVars, retryVars, breakerVars, handlerVars, webhookVars,
                   storageVars,
                   limiterVars, typingVars, instanceVars>>

InitOperator ==
    /\ contactShown = [c \in Chats |-> 0]
    /\ systemEntries = [c \in Chats |-> 0]
    /\ lastAnswer = NoAnswer

NextOperator ==
    \E c \in Chats, transfer \in BOOLEAN : AnswerCommand(c, transfer)

\* ---------------------------------------------------------- message handler

\* The session lookups after the handoff check: hasActiveThread, then
\* getUserThread for the thread id.  No session: the /start prompt.
ThreadLookup(ut, cache, c) ==
    LET has == GetUserThread(ut, cache, "num", c)
    IN  IF has.thread = 0 THEN has ELSE GetUserThread(ut, has.cache, "num", c)

\* The session lookups going on to the AI relay whether or not a session
\* was found.
ToLookupNoSessionCheck(h, c, cache) ==
    LET look == ThreadLookup(userThreads, cache, c)
    IN  /\ sessionCache' = look.cache
        /\ threadUsed' = [threadUsed EXCEPT ![h] = look.thread]
        /\ msgPc' = [msgPc EXCEPT ![h] = "typing1"]
        /\ route' = [route EXCEPT ![h] = "none"]

\* Continue past the handoff check from the given cache.
ToLookup(h, c, cache) ==
    LET look == ThreadLookup(userThreads, cache, c)
    IN  /\ sessionCache' = look.cache
        /\ threadUsed' = [threadUsed EXCEPT ![h] = look.thread]
        /\ IF look.thread = 0
           THEN /\ msgPc' = [msgPc EXCEPT ![h] = "notify"]
                /\ route' = [route EXCEPT ![h] = "prompt"]
           ELSE /\ msgPc' = [msgPc EXCEPT ![h] = "typing1"]
                /\ route' = [route EXCEPT ![h] = "none"]

\* processItem from its start to its first suspension on the network: the
\* text check, the assistantId check, isInHumanHandoff, and either the
\* operator-forward branch or the session lookups.
Receive(h, c, kind) ==
    /\ msgPc[h] \in {"idle", "done"}
    /\ msgChat' = [msgChat EXCEPT ![h] = c]
    /\ aiCalled' = [aiCalled EXCEPT ![h] = FALSE]
    /\ sendFailed' = [sendFailed EXCEPT ![h] = FALSE]
    /\ sent' = [sent EXCEPT ![h] = 0]
    /\ aiResult' = [aiResult EXCEPT ![h] = "none"]
    /\ LET g == GetUserThread(userThreads, sessionCache, "num", c)
       IN  IF kind = "nontext" \/ ~assistantId
           THEN /\ msgPc' = [msgPc EXCEPT ![h] = "notify"]
                /\ route' = [route EXCEPT ![h] =
                                IF kind = "nontext" THEN "nontext"
                                                    ELSE "initializing"]
                /\ sawHandoff' = [sawHandoff EXCEPT ![h] = FALSE]
                /\ threadUsed' = [threadUsed EXCEPT ![h] = 0]
                /\ UNCHANGED sessionCache
           ELSE IF IsInHumanHandoff(g, handoffOf)
           THEN /\ msgPc' = [msgPc EXCEPT ![h] = "forward"]
                /\ route' = [route EXCEPT ![h] = "none"]
                /\ sawHandoff' = [sawHandoff EXCEPT ![h] = TRUE]
                /\ threadUsed' = [threadUsed EXCEPT ![h] = 0]
                /\ sessionCache' = g.cache
           ELSE /\ sawHandoff' = [sawHandoff EXCEPT ![h] = FALSE]
                /\ ToLookup(h, c, g.cache)
    /\ UNCHANGED <<userThreads, handoffOf, minted, startPc, ownerOf, dbSessions, lastCmd,
                   lastWrite, assistantId>>
    /\ UNCHANGED <<queueVars, retryVars, breakerVars, operatorVars, webhookVars,
                   storageVars,
                   limiterVars, typingVars, instanceVars>>

\* The forwarded notice was sent: return.
ForwardSent(h) ==
    /\ msgPc[h] = "forward"
    /\ msgPc' = [msgPc EXCEPT ![h] = "done"]
    /\ route' = [route EXCEPT ![h] = "operator"]
    /\ sent' = [sent EXCEPT ![h] = @ + 1]
    /\ UNCHANGED <<msgChat, sawHandoff, threadUsed, aiCalled, sendFailed, aiResult>>
    /\ UNCHANGED <<queueVars, retryVars, breakerVars, sessionVars,
                   operatorVars, webhookVars, storageVars,
                   limiterVars, typingVars, instanceVars>>

\* bot.sendMessage of the forwarded notice rejected: the catch around the
\* handoff check logs it and processItem goes on to the session lookups.
ForwardFails(h) ==
    /\ msgPc[h] = "forward"
    /\ ToLookup(h, msgChat[h], sessionCache)
    /\ sendFailed' = [sendFailed EXCEPT ![h] = TRUE]
    /\ UNCHANGED <<msgChat, sawHandoff, aiCalled, sent, aiResult>>
    /\ UNCHANGED <<userThreads, handoffOf, minted, startPc, ownerOf, dbSessions, lastCmd,
                   lastWrite, assistantId>>
    /\ UNCHANGED <<queueVars, retryVars, breakerVars, operatorVars, webhookVars,
                   storageVars,
                   limiterVars, typingVars, instanceVars>>

\* A user-facing message was sent; processItem returns.
NotifySent(h) ==
    /\ msgPc[h] = "notify"
    /\ msgPc' = [msgPc EXCEPT ![h] = "done"]
    /\ sent' = [sent EXCEPT ![h] = @ + 1]
    /\ UNCHANGED <<msgChat, sawHandoff, threadUsed, aiCalled, route, sendFailed,
                   aiResult>>
    /\ UNCHANGED <<queueVars, retryVars, breakerVars, sessionVars,
                   operatorVars, webhookVars, storageVars,
                   limiterVars, typingVars, instanceVars>>

\* bot.sendMessage rejected.  The reply is sent inside the inner try, whose
\* catch sends the apology; the apology is inside the outer try, whose catch
\* sends "Unable to process"; the /start prompt is sent inside the try around
\* hasActiveThread, whose catch sends "An error occurred"; every other send
\* is outside any try and its rejection leaves processItem.
NotifyFails(h) ==
    /\ msgPc[h] = "notify"
    /\ IF route[h] \in {"reply", "transfer", "empty"}
       THEN /\ route' = [route EXCEPT ![h] = "apology"]
            /\ UNCHANGED msgPc
       ELSE IF route[h] = "apology"
       THEN /\ route' = [route EXCEPT ![h] = "unable"]
            /\ UNCHANGED msgPc
       ELSE IF route[h] = "prompt"
       THEN /\ route' = [route EXCEPT ![h] = "error"]
            /\ UNCHANGED msgPc
       ELSE /\ route' = [route EXCEPT ![h] = "threw"]
            /\ msgPc' = [msgPc EXCEPT ![h] = "done"]
    /\ sendFailed' = [sendFailed EXCEPT ![h] = TRUE]
    /\ UNCHANGED <<msgChat, sawHandoff, threadUsed, aiCalled, sent, aiResult>>
    /\ UNCHANGED <<queueVars, retryVars, breakerVars, sessionVars,
                   operatorVars, webhookVars, storageVars,
                   limiterVars, typingVars, instanceVars>>

\* sendChatAction done, logUserMessage (a no-op without a database), then
\* openaiService.addMessageToThread is called.
Typing1Sent(h) ==
    /\ msgPc[h] = "typing1"
    /\ msgPc' = [msgPc EXCEPT ![h] = "aiAdd"]
    /\ aiCalled' = [aiCalled EXCEPT ![h] = TRUE]
    /\ UNCHANGED <<msgChat, sawHandoff, threadUsed, route, sendFailed, sent,
                   aiResult>>
    /\ UNCHANGED <<queueVars, retryVars, breakerVars, sessionVars,
                   operatorVars, webhookVars, storageVars,
                   limiterVars, typingVars, instanceVars>>

\* A step of the outer try threw (sendChatAction, addMessageToThread after
\* its retries): the outer catch sends "Unable to process".
OuterStepFails(h) ==
    /\ msgPc[h] \in {"typing1", "aiAdd", "typing2"}
    /\ msgPc' = [msgPc EXCEPT ![h] = "notify"]
    /\ route' = [route EXCEPT ![h] = "unable"]
    /\ IF msgPc[h] = "aiAdd"
       THEN /\ aiResult' = [aiResult EXCEPT ![h] = "failed"]
            /\ UNCHANGED sendFailed
       ELSE /\ sendFailed' = [sendFailed EXCEPT ![h] = TRUE]
            /\ UNCHANGED aiResult
    /\ UNCHANGED <<msgChat, sawHandoff, threadUsed, aiCalled, sent>>
    /\ UNCHANGED <<queueVars, retryVars, breakerVars, sessionVars,
                   operatorVars, webhookVars, storageVars,
                   limiterVars, typingVars, instanceVars>>

\* addMessageToThread returned: the second typing indicator.
AiAddDone(h) ==
    /\ msgPc[h] = "aiAdd"
    /\ msgPc' = [msgPc EXCEPT ![h] = "typing2"]
    /\ UNCHANGED <<msgChat, sawHandoff, threadUsed, aiCalled, route, sendFailed,
                   sent, aiResult>>
    /\ UNCHANGED <<queueVars, retryVars, breakerVars, sessionVars,
                   operatorVars, webhookVars, storageVars,
                   limiterVars, typingVars, instanceVars>>

\* The typing indicator is running: runAssistantAndGetResponse is called.
Typing2Sent(h) ==
    /\ msgPc[h] = "typing2"
    /\ msgPc' = [msgPc EXCEPT ![h] = "aiRun"]
    /\ UNCHANGED <<msgChat, sawHandoff, threadUsed, aiCalled, route, sendFailed,
                   sent, aiResult>>
    /\ UNCHANGED <<queueVars, retryVars, breakerVars, sessionVars,
                   operatorVars, webhookVars, storageVars,
                   limiterVars, typingVars, instanceVars>>

\* What runAssistantAndGetResponse can return: null, the empty string (an
\* assistant message without text content), a text, or a text that contains
\* config.telegram.operatorTransferMessage.
Replies == {"null", "blank", "text", "transfer"}

\* if (response): null and the empty string are falsy.
Truthy(reply) == reply \notin {"null", "blank"}

\* A null response sent to the inner catch as if the call had thrown.
AiRunDoneNullIsError(h, reply) ==
    /\ msgPc[h] = "aiRun"
    /\ msgPc' = [msgPc EXCEPT ![h] = "notify"]
    /\ route' = [route EXCEPT ![h] =
                    CASE reply = "null" -> "apology"
                      [] ~Truthy(reply) -> "empty"
                      [] reply = "text" -> "reply"
                      [] OTHER -> "transfer"]
    /\ aiResult' = [aiResult EXCEPT ![h] =
                       IF Truthy(reply) THEN "text" ELSE reply]
    /\ UNCHANGED <<msgChat, sawHandoff, threadUsed, aiCalled, sendFailed, sent>>
    /\ UNCHANGED <<queueVars, retryVars, breakerVars, sessionVars,
                   operatorVars, webhookVars, storageVars,
                   limiterVars, typingVars, instanceVars>>

\* runAssistantAndGetResponse returned a text or null: send the reply with
\* bot.sendMessage, or the fallback.
AiRunDone(h, reply) ==
    /\ msgPc[h] = "aiRun"
    /\ msgPc' = [msgPc EXCEPT ![h] = "notify"]
    /\ route' = [route EXCEPT ![h] =
                    CASE ~Truthy(reply) -> "empty"
                      [] reply = "text" -> "reply"
                      [] OTHER -> "transfer"]
    /\ aiResult' = [aiResult EXCEPT ![h] =
                       IF Truthy(reply) THEN "text" ELSE reply]
    /\ UNCHANGED <<msgChat, sawHandoff, threadUsed, aiCalled, sendFailed, sent>>
    /\ UNCHANGED <<queueVars, retryVars, breakerVars, sessionVars,
                   operatorVars, webhookVars, storageVars,
                   limiterVars, typingVars, instanceVars>>

\* runAssistantAndGetResponse threw after its retries: the inner catch sends
\* the apology.
AiRunFails(h) ==
    /\ msgPc[h] = "aiRun"
    /\ msgPc' = [msgPc EXCEPT ![h] = "notify"]
    /\ route' = [route EXCEPT ![h] = "apology"]
    /\ aiResult' = [aiResult EXCEPT ![h] = "failed"]
    /\ UNCHANGED <<msgChat, sawHandoff, threadUsed, aiCalled, sendFailed, sent>>
    /\ UNCHANGED <<queueVars, retryVars, breakerVars, sessionVars,
                   operatorVars, webhookVars, storageVars,
                   limiterVars, typingVars, instanceVars>>

InitHandler ==
    /\ msgPc = [h \in Handlers |-> "idle"]
    /\ msgChat = [h \in Handlers |-> 1]
    /\ sawHandoff = [h \in Handlers |-> FALSE]
    /\ threadUsed = [h \in Handlers |-> 0]
    /\ aiCalled = [h \in Handlers |-> FALSE]
    /\ route = [h \in Handlers |-> "none"]
    /\ sendFailed = [h \in Handlers |-> FALSE]
    /\ sent = [h \in Handlers |-> 0]
    /\ aiResult = [h \in Handlers |-> "none"]

NextHandler ==
    \E h \in Handlers :
        \/ \E c \in Chats, kind \in {"text", "nontext"} : Receive(h, c, kind)
        \/ ForwardSent(h)
        \/ ForwardFails(h)
        \/ NotifySent(h)
        \/ NotifyFails(h)
        \/ Typing1Sent(h)
        \/ OuterStepFails(h)
        \/ AiAddDone(h)
        \/ Typing2Sent(h)
        \/ \E reply \in Replies : AiRunDone(h, reply)
        \/ AiRunFails(h)

\* ------------------------------------------------------------ routing claim

\* C1: a text message processed while its conversation's handoff flag is
\* true goes to the operator-forward path, and neither addMessageToThread
\* nor runAssistantAndGetResponse is called for it.
C1_HandoffNeverReachesAI ==
    \A h \in Handlers : sawHandoff[h] => ~aiCalled[h]

\* -------------------------------------------------- session registry claims

\* What getUserThread(chatId) returns now for chat c asked under key kind k:
\* the thread id of the session, 0 for null.
SessionOf(k, c) == GetUserThread(userThreads, sessionCache, k, c).thread

\* A /start of chat c has got as far as storeUserThread.
StartCompleted(c) == \E t \in Threads : ownerOf[t] = c

\* C12: getUserThread(c) returns null in every state in which no /start of
\* c has completed its storeUserThread, also while a /start of c is waiting
\* for createThread.
C12_NullBeforeStart ==
    \A c \in Chats, k \in KeyKinds :
        ~StartCompleted(c) => SessionOf(k, c) = 0

\* C12 witness: a /start of c is in progress, none has completed for c, and
\* another conversation already has a session.
C12_StartInProgressWitness ==
    \E c, d \in Chats :
        /\ startPc[c] = "creating"
        /\ ~StartCompleted(c)
        /\ SessionOf("num", d) # 0

\* C13: once getUserThread(c) has returned a session, every later
\* getUserThread(c) that returns a session returns the same thread id,
\* whatever messages, operator commands and further /start commands come
\* in between.
C13_ThreadIdNeverChanges ==
    [][\A c \in Chats, k \in KeyKinds :
          (SessionOf(k, c) # 0 /\ SessionOf(k, c)' # 0)
              => SessionOf(k, c)' = SessionOf(k, c)]_vars

\* The thread stored by the latest completed /start of chat c (the backend
\* numbers its threads in the order it mints them).
LastThread(c) ==
    CHOOSE t \in Threads :
        /\ ownerOf[t] = c
        /\ \A u \in Threads : ownerOf[u] = c => u <= t

\* C14: when a /start of c completes with thread h, getUserThread(c) returns
\* the session with thread h and handoff false from every tier and under
\* every key; and the last /start wins: no read of c ever returns a thread
\* older than the one the latest completed /start of c stored.
C14_LastStartWins ==
    /\ [](\A c \in Chats, k \in KeyKinds :
            SessionOf(k, c) # 0 => SessionOf(k, c) = LastThread(c))
    /\ [][\A c \in Chats :
            (minted' = minted + 1 /\ ownerOf'[minted'] = c)
                => \A k \in KeyKinds :
                      /\ SessionOf(k, c)' = minted'
                      /\ ~handoffOf'[minted']]_vars

\* The session objects the tiers hold for chat c: the in-memory map's entry
\* and the TTL cache's entries (useDatabase is false: there is no durable
\* row).
TierEntries(c) ==
    {userThreads[c], sessionCache["num"][c], sessionCache["str"][c]} \ {0}

\* C15: when a session exists for c, the /handoff or /ai command's
\* setHumanHandoff(c, enabled) returns true, and afterwards every tier that
\* holds a session for c holds the handoff value `enabled`.
C15_HandoffWrittenToAllTiers ==
    /\ lastCmd.reply \in {"missing", "failed"} => TierEntries(lastCmd.chat) = {}
    /\ lastCmd.reply = "done"
          => \A t \in TierEntries(lastCmd.chat) : handoffOf[t] = lastCmd.enabled

\* C16: for a conversation c with no session in any tier,
\* setHumanHandoff(c, true) returns false and changes no tier, so that a
\* following message of c still finds no session; and the /handoff command
\* for such a c answers that the chat does not exist and changes nothing.
C16_NoSessionNoHandoff ==
    /\ [](\A c \in Chats, k \in KeyKinds :
            TierEntries(c) = {}
                => LET set == SetHumanHandoff(userThreads, sessionCache,
                                              handoffOf, k, c, TRUE)
                   IN  /\ ~set.ok
                       /\ set.cache = sessionCache
                       /\ set.handoffOf = handoffOf
                       /\ ThreadLookup(userThreads, set.cache, c).thread = 0)
    /\ [][\A c \in Chats :
            (TierEntries(c) = {} /\ lastCmd' # lastCmd /\ lastCmd'.chat = c)
                => /\ lastCmd'.reply = "missing"
                   /\ UNCHANGED <<userThreads, sessionCache, handoffOf>>
                   /\ TierEntries(c)' = {}]_vars

\* C16 witness: /handoff was sent for a conversation without a session
\* while another conversation has one, and was answered "does not exist".
C16_UnknownChatWitness ==
    /\ lastCmd.reply = "missing"
    /\ lastCmd.enabled
    /\ TierEntries(lastCmd.chat) = {}
    /\ \E d \in Chats : TierEntries(d) # {}

\* C17: setHumanHandoff(c, true) is idempotent.  In every state that a
\* successful /handoff of c has just produced, a second setHumanHandoff(c,
\* true) returns true and leaves the registry exactly as the first call
\* left it: the same session (thread id) with handoff true.
C17_SetHandoffIdempotent ==
    (lastCmd.reply = "done" /\ lastCmd.enabled)
        => LET c == lastCmd.chat
               set == SetHumanHandoff(userThreads, sessionCache, handoffOf,
                                      "str", c, TRUE)
           IN  /\ set.ok
               /\ set.cache = sessionCache
               /\ set.handoffOf = handoffOf
               /\ handoffOf[SessionOf("str", c)]
               /\ GetUserThread(userThreads, set.cache, "str", c).thread
                      = SessionOf("str", c)

\* C17 witness: /handoff has just succeeded, its session reads handoff true,
\* and some session is in AI mode.
C17_HandoffDoneWitness ==
    /\ lastCmd.reply = "done"
    /\ lastCmd.enabled
    /\ handoffOf[SessionOf("str", lastCmd.chat)]
    /\ \E d \in Chats : SessionOf("num", d) # 0 /\ ~handoffOf[SessionOf("num", d)]

\* C18: read-after-write within one process.  After setHumanHandoff(c, v)
\* has returned true, isInHumanHandoff(c) returns v under every key and from
\* whichever tier serves the read (also once the cache entry has expired),
\* until the next setHumanHandoff or /start of c.
C18_ReadAfterWrite ==
    \A c \in Chats, k \in KeyKinds :
        lastWrite[c] # "none"
            => IsInHumanHandoff(GetUserThread(userThreads, sessionCache, k, c),
                                handoffOf)
                   = (lastWrite[c] = "on")

\* C19: each conversation maps to a single session across the tiers: the
\* in-memory map and the cache entries that hold a session for c all hold
\* the same one (same thread id, same handoff value).
C19_OneSessionPerChat ==
    \A c \in Chats : Cardinality(TierEntries(c)) <= 1

\* C20: a session written through the registry and no longer held by the
\* in-memory map or the cache is still returned by getUserThread(c), read
\* from the durable tier, and that read puts it back into the cache.
C20_DurableFallThrough ==
    \A c \in Chats, k \in KeyKinds :
        (StartCompleted(c) /\ TierEntries(c) = {})
            => LET got == GetUserThread(userThreads, sessionCache, k, c)
               IN  /\ got.thread = LastThread(c)
                   /\ got.cache[k][c] = got.thread

\* C21: a registry write is acknowledged only when the durable tier holds
\* what was written: while the process holds a session it stored for c, the
\* durable row of c names that session's thread, and after a successful
\* setHumanHandoff the row carries the flag that was written.
C21_AcknowledgedOnlyIfDurable ==
    \A c \in Chats :
        /\ userThreads[c] # 0 => dbSessions[c].thread = userThreads[c]
        /\ lastWrite[c] # "none"
               => dbSessions[c].handoff = (lastWrite[c] = "on")

\* What the message handler reads as the handoff flag of conversation c.
HandoffFlag(c) ==
    IsInHumanHandoff(GetUserThread(userThreads, sessionCache, "num", c),
                     handoffOf)

\* C22: while conversation c keeps a session, its handoff flag goes from
\* true to false only in a step that is the operator's /ai command for c
\* succeeding; no /start, cache expiry or other step clears it.
C22_OnlyAiCommandClearsHandoff ==
    [][\A c \in Chats :
          (HandoffFlag(c) /\ SessionOf("num", c)' # 0 /\ ~HandoffFlag(c)')
              => lastCmd' = [chat |-> c, enabled |-> FALSE, reply |-> "done"]
      ]_vars

\* ---------------------------------------------------- message handler claims

\* C23: when an AI reply that contains the operator-transfer phrase is
\* delivered to conversation c, the conversation's handoff flag is true
\* after that step, so that its next message takes the operator path.
C23_TransferReplySetsHandoff ==
    [][\A h \in Handlers :
          (/\ msgPc[h] = "notify" /\ route[h] = "transfer"
           /\ msgPc'[h] = "done" /\ route'[h] = "transfer")
              => HandoffFlag(msgChat[h])'
      ]_vars

\* The invocation has returned, none of its Telegram calls was rejected, and
\* it was for a text message, received with the assistant configured, that
\* isInHumanHandoff answered false for.
RelayedCleanly(h) ==
    /\ msgPc[h] = "done"
    /\ ~sendFailed[h]
    /\ ~sawHandoff[h]
    /\ route[h] \notin {"none", "nontext", "initializing"}

C26_ExactlyOneAnswer ==
    \A h \in Handlers :
        (RelayedCleanly(h) /\ threadUsed[h] # 0)
            => /\ sent[h] = 1
               /\ aiResult[h] = "text" <=> route[h] \in {"reply", "transfer"}
               /\ aiResult[h] \in {"null", "blank"} <=> route[h] = "empty"
               /\ aiResult[h] = "failed" <=> route[h] \in {"apology", "unable"}
               /\ aiResult[h] # "none"

\* C26 as stated: exactly one user-facing message, which is the reply
\* whenever runAssistantAndGetResponse returned something other than null
\* and the fallback only when it returned null.
C26_ReplyWheneverNonNull ==
    \A h \in Handlers :
        (RelayedCleanly(h) /\ threadUsed[h] # 0)
            => /\ sent[h] = 1
               /\ aiResult[h] \in {"text", "blank"}
                     <=> route[h] \in {"reply", "transfer"}
               /\ aiResult[h] = "null" <=> route[h] = "empty"
               /\ aiResult[h] = "failed" <=> route[h] \in {"apology", "unable"}

\* An empty reply has been answered with the fallback.
C26_FallbackSentWitness ==
    \E h \in Handlers :
        /\ RelayedCleanly(h) /\ threadUsed[h] # 0
        /\ aiResult[h] = "blank" /\ route[h] = "empty" /\ sent[h] = 1

\* C37: when /handoff for a conversation interleaves with a message of that
\* conversation whose AI-backend call is pending, no assistant reply is
\* sent to the conversation once the handoff has been set: at the moment
\* the handler sends the assistant's text, the conversation is not in
\* handoff.
C37_NoReplyAfterHandoff ==
    [][\A h \in Handlers :
          (msgPc[h] = "aiRun" /\ route'[h] \in {"reply", "transfer"})
              => ~HandoffFlag(msgChat[h])]_vars

\* C38: /answer delivers its text to the target only if the target has a
\* session whose handoff flag is true when the command is handled; in every
\* other case nothing is sent to the target and the operator is told that
\* the message cannot be sent.
C38_AnswerOnlyInHandoff ==
    lastAnswer.chat # 0 =>
        /\ lastAnswer.delivered => lastAnswer.inHandoff
        /\ ~lastAnswer.inHandoff => (~lastAnswer.delivered /\ lastAnswer.refused)

\* C24: every step that takes conversation c from AI to HUMAN (its handoff
\* flag goes from false to true) appends one role-'system' entry to the
\* conversation's log and shows the user the operator-contact message once.
C24_TransitionAuditedAndShown ==
    [][\A c \in Chats :
          (~HandoffFlag(c) /\ HandoffFlag(c)')
              => /\ systemEntries'[c] = systemEntries[c] + 1
                 /\ contactShown'[c] = contactShown[c] + 1
      ]_vars

\* ----------------------------------------------------------- retryOperation

\* What an operation can resolve with and what it can reject with.
OpValues == {"v1", "v2"}
OpErrors == {"e1", "e2"}

\* The for condition with a strict comparison.
LoopContinuesStrict(a, m) == a < m

\* The for condition: attempt <= maxRetries.
LoopContinues(a, m) == a <= m

\* Enter the loop body with attempt a (operation is invoked), or leave the
\* loop and throw lastError.
EnterOrThrow(a, err) ==
    /\ attempt' = a
    /\ IF LoopContinues(a, maxRetries)
       THEN /\ rPc' = "calling"
            /\ UNCHANGED received
       ELSE /\ rPc' = "threw"
            /\ received' = err

\* retryOperation(operation, m, d) up to its first await.
RetryCall(m, d) ==
    /\ rPc \in {"idle", "returned", "threw"}
    /\ maxRetries' = m
    /\ delay' = d
    /\ lastError' = "undefined"
    /\ opLog' = <<>>
    /\ timer' = 0
    /\ IF LoopContinues(1, m)
       THEN /\ rPc' = "calling"
            /\ attempt' = 1
            /\ received' = "none"
       ELSE /\ rPc' = "threw"
            /\ attempt' = 1
            /\ received' = "undefined"
    /\ UNCHANGED <<queueVars, breakerVars, sessionVars, handlerVars,
                   operatorVars, webhookVars, storageVars,
                   limiterVars, typingVars, instanceVars>>

\* The awaited operation() fulfilled with v: return it.
OperationReturns(v) ==
    /\ rPc = "calling"
    /\ opLog' = Append(opLog, v)
    /\ rPc' = "returned"
    /\ received' = v
    /\ UNCHANGED <<maxRetries, delay, attempt, lastError, timer>>
    /\ UNCHANGED <<queueVars, breakerVars, sessionVars, handlerVars,
                   operatorVars, webhookVars, storageVars,
                   limiterVars, typingVars, instanceVars>>

\* The awaited operation() rejected with e: the catch keeps the error and,
\* unless this was the last attempt, sleeps delay * attempt.
OperationThrows(e) ==
    /\ rPc = "calling"
    /\ opLog' = Append(opLog, e)
    /\ lastError' = e
    /\ UNCHANGED <<maxRetries, delay>>
    /\ IF attempt < maxRetries
       THEN /\ rPc' = "waiting"
            /\ timer' = delay * attempt
            /\ UNCHANGED <<attempt, received>>
       ELSE /\ EnterOrThrow(attempt + 1, e)
            /\ UNCHANGED timer
    /\ UNCHANGED <<queueVars, breakerVars, sessionVars, handlerVars,
                   operatorVars, webhookVars, storageVars,
                   limiterVars, typingVars, instanceVars>>

\* One tick of the pending timer passes.
TimerTick ==
    /\ rPc = "waiting"
    /\ timer > 0
    /\ timer' = timer - 1
    /\ UNCHANGED <<rPc, maxRetries, delay, attempt, lastError, opLog, received>>
    /\ UNCHANGED <<queueVars, breakerVars, sessionVars, handlerVars,
                   operatorVars, webhookVars, storageVars,
                   limiterVars, typingVars, instanceVars>>

\* The timer fired: attempt++ and the next round of the loop.
TimerFires ==
    /\ rPc = "waiting"
    /\ timer = 0
    /\ EnterOrThrow(attempt + 1, lastError)
    /\ UNCHANGED <<maxRetries, delay, lastError, timer, opLog>>
    /\ UNCHANGED <<queueVars, breakerVars, sessionVars, handlerVars,
                   operatorVars, webhookVars, storageVars,
                   limiterVars, typingVars, instanceVars>>

InitRetry ==
    /\ rPc = "idle"
    /\ maxRetries = 1
    /\ delay = 1
    /\ attempt = 1
    /\ lastError = "undefined"
    /\ timer = 0
    /\ opLog = <<>>
    /\ received = "none"

NextRetry ==
    \/ \E m \in 1..MaxRetries, d \in 1..MaxDelay : RetryCall(m, d)
    \/ \E v \in OpValues : OperationReturns(v)
    \/ \E e \in OpErrors : OperationThrows(e)
    \/ TimerTick
    \/ TimerFires

\* ---------------------------------------------------- retryOperation claim

\* The invocations of operation that rejected, so far.
FailedCalls == {k \in 1..Len(opLog) : opLog[k] \in OpErrors}

\* C11: with maxRetries >= 1, when the operation first succeeds on attempt
\* k <= maxRetries the caller receives that result after exactly k
\* invocations; when every attempt fails the operation was invoked exactly
\* maxRetries times and the caller gets the error of the last attempt.
C11_RetryCounts ==
    /\ Len(opLog) <= maxRetries
    /\ rPc = "returned"
          => /\ FailedCalls = 1..(Len(opLog) - 1)
             /\ received = opLog[Len(opLog)]
             /\ received \in OpValues
    /\ rPc = "threw"
          => /\ Len(opLog) = maxRetries
             /\ FailedCalls = 1..maxRetries
             /\ received = opLog[maxRetries]

\* C11 witness: two failures, then the third attempt of three succeeded.
C11_ThirdAttemptWitness ==
    /\ rPc = "returned"
    /\ maxRetries = 3
    /\ Len(opLog) = 3
    /\ FailedCalls = {1, 2}

\* ------------------------------------------------------------ POST /webhook

\* What a request body can be: an object with a numeric update_id, or
\* anything else.
Payloads == {"update", "malformed"}

\* WebhookController.isValidUpdate(update)
IsValidUpdate(payload) == payload = "update"

\* RateLimiter.isRateLimited(ip) for one client address, h being the number
\* of its requests still inside the window: refuse at maxRequests, otherwise
\* record the request.
IsRateLimited(h) ==
    IF h >= RateLimit THEN [limited |-> TRUE, hits |-> h]
                      ELSE [limited |-> FALSE, hits |-> h + 1]

\* The route handler's catch answering 200 to the breaker's rejection, as
\* handleUpdate's own catch does.
WebhookOutcomeSwallowsOpen(payload, secretOk, shutting, h, b, t) ==
    LET lim == IsRateLimited(h)
        r == IsOpen(b, t)
        Answer(st, hh, bb, rej, ok) ==
            [status |-> st, pc |-> "done", hits |-> hh, cb |-> bb,
             rejected |-> rej, dispatched |-> FALSE, succeeded |-> ok]
    IN  IF shutting THEN Answer("503", h, b, FALSE, FALSE)
        ELSE IF lim.limited THEN Answer("429", lim.hits, b, FALSE, FALSE)
        ELSE IF ~secretOk THEN Answer("403", lim.hits, b, FALSE, FALSE)
        ELSE IF r.open THEN Answer("200", lim.hits, r.cb, TRUE, FALSE)
        ELSE IF ~IsValidUpdate(payload)
        THEN Answer("400", lim.hits, OnSuccess(r.cb), FALSE, TRUE)
        ELSE [status |-> "none", pc |-> "handling", hits |-> lim.hits,
              cb |-> r.cb, rejected |-> FALSE, dispatched |-> TRUE,
              succeeded |-> FALSE]

\* The /webhook route handler up to its first suspension: the shutdown
\* check, the rate limiter, the secret token, then
\* openaiCircuitBreaker.execute around WebhookController.handleUpdate, which
\* answers 400 to an invalid update and otherwise awaits bot.handleUpdate.
\* A 400 is written by an operation that returns normally: execute then
\* runs onSuccess.
WebhookOutcome(payload, secretOk, shutting, h, b, t) ==
    LET lim == IsRateLimited(h)
        r == IsOpen(b, t)
        Answer(st, hh, bb, rej, ok) ==
            [status |-> st, pc |-> "done", hits |-> hh, cb |-> bb,
             rejected |-> rej, dispatched |-> FALSE, succeeded |-> ok]
    IN  IF shutting THEN Answer("503", h, b, FALSE, FALSE)
        ELSE IF lim.limited THEN Answer("429", lim.hits, b, FALSE, FALSE)
        ELSE IF ~secretOk THEN Answer("403", lim.hits, b, FALSE, FALSE)
        ELSE IF r.open THEN Answer("503", lim.hits, r.cb, TRUE, FALSE)
        ELSE IF ~IsValidUpdate(payload)
        THEN Answer("400", lim.hits, OnSuccess(r.cb), FALSE, TRUE)
        ELSE [status |-> "none", pc |-> "handling", hits |-> lim.hits,
              cb |-> r.cb, rejected |-> FALSE, dispatched |-> TRUE,
              succeeded |-> FALSE]

\* A POST /webhook request arrives.
WebhookArrives(payload, secretOk) ==
    /\ whPc \in {"idle", "done"}
    /\ LET o == WebhookOutcome(payload, secretOk, isShuttingDown, hits, cb, now)
       IN  /\ status' = o.status
           /\ whPc' = o.pc
           /\ hits' = o.hits
           /\ cb' = o.cb
           /\ openRejected' = o.rejected
           /\ dispatched' = o.dispatched
           /\ streak' = IF o.succeeded THEN 0 ELSE streak
    /\ UNCHANGED isShuttingDown
    /\ UNCHANGED <<now, callPc, trial, lastFailAt>>
    /\ UNCHANGED <<queueVars, retryVars, sessionVars, handlerVars, operatorVars,
                   storageVars,
                   limiterVars, typingVars, instanceVars>>

\* bot.handleUpdate settled: handleUpdate answers 200 when it returned and,
\* from its catch, 200 when it threw; either way the operation given to
\* execute returns normally and execute runs onSuccess.
WebhookSettles(threw) ==
    /\ whPc = "handling"
    /\ whPc' = "done"
    /\ status' = "200"
    /\ cb' = OnSuccess(cb)
    /\ streak' = 0
    /\ UNCHANGED <<isShuttingDown, hits, openRejected, dispatched>>
    /\ UNCHANGED <<now, callPc, trial, lastFailAt>>
    /\ UNCHANGED <<queueVars, retryVars, sessionVars, handlerVars, operatorVars,
                   storageVars,
                   limiterVars, typingVars, instanceVars>>

\* A recorded request is older than windowMs: the filter in isRateLimited
\* and in cleanup drops it.
WindowSlides ==
    /\ hits > 0
    /\ hits' = hits - 1
    /\ UNCHANGED <<isShuttingDown, whPc, status, openRejected, dispatched>>
    /\ UNCHANGED <<queueVars, retryVars, breakerVars, sessionVars, handlerVars,
                   operatorVars, storageVars,
                   limiterVars, typingVars, instanceVars>>

\* shutdown() sets the flag.
BeginShutdown ==
    /\ ~isShuttingDown
    /\ isShuttingDown' = TRUE
    /\ UNCHANGED <<hits, whPc, status, openRejected, dispatched>>
    /\ UNCHANGED <<queueVars, retryVars, breakerVars, sessionVars, handlerVars,
                   operatorVars, storageVars,
                   limiterVars, typingVars, instanceVars>>

\* What the periodic health check does with the outcome of its
\* openaiCircuitBreaker.execute(validateApiKey) call, c being the caller:
\* its catch logs 'Health check failed', for a rejection by the open breaker
\* as for a failed call.
HealthOutcome(c) ==
    IF callPc[c] \in {"rejected", "failed"} THEN "logged" ELSE "none"

InitWebhook ==
    /\ isShuttingDown = FALSE
    /\ hits = 0
    /\ whPc = "idle"
    /\ status = "none"
    /\ openRejected = FALSE
    /\ dispatched = FALSE

\* The webhook route, and the health check timer as caller 1 of the breaker.
NextWebhook ==
    \/ \E payload \in Payloads, secretOk \in BOOLEAN :
          WebhookArrives(payload, secretOk)
    \/ \E threw \in BOOLEAN : WebhookSettles(threw)
    \/ WindowSlides
    \/ BeginShutdown
    \/ Execute(1)
    \/ OperationSucceeds(1)
    \/ OperationFails(1)
    \/ Tick

\* ----------------------------------------------------- POST /webhook claims

\* C27: every response to POST /webhook is a 200.
C27_WebhookAlwaysAnswers200 ==
    whPc = "done" => status = "200"

Get(st, k) == IF st[k] = Missing THEN "undefined" ELSE st[k]

\* Map.has(key)
Exists(st, k) == st[k] # Missing

\* The armed timers of key k.
TimersOf(k) == {t \in timers : t.key = k}

\* setEx that arms the new timer without clearing the key's earlier one.
SetExKeepsTimer(k, v, ttl) ==
    /\ armed < MaxTimers
    /\ armed' = armed + 1
    /\ timers' = timers \cup {[id |-> armed + 1, key |-> k, due |-> clock + ttl]}
    /\ store' = [store EXCEPT ![k] = v]
    /\ timeouts' = [timeouts EXCEPT ![k] = armed + 1]
    /\ lastSet' = [lastSet EXCEPT ![k] = [value |-> v, at |-> clock, ttl |-> ttl]]
    /\ UNCHANGED <<clock, remote, connected, lastRead>>
    /\ UNCHANGED <<queueVars, retryVars, breakerVars, sessionVars, handlerVars,
                   operatorVars, webhookVars,
                   limiterVars, typingVars, instanceVars>>

\* MemoryStorage.setEx(key, value, ttl): clear the key's timer, store the
\* value, arm a timer for ttl seconds from now.
SetEx(k, v, ttl) ==
    /\ armed < MaxTimers
    /\ armed' = armed + 1
    /\ timers' = {t \in timers : t.id # timeouts[k]}
                    \cup {[id |-> armed + 1, key |-> k, due |-> clock + ttl]}
    /\ store' = [store EXCEPT ![k] = v]
    /\ timeouts' = [timeouts EXCEPT ![k] = armed + 1]
    /\ lastSet' = [lastSet EXCEPT ![k] = [value |-> v, at |-> clock, ttl |-> ttl]]
    /\ UNCHANGED <<clock, remote, connected, lastRead>>
    /\ UNCHANGED <<queueVars, retryVars, breakerVars, sessionVars, handlerVars,
                   operatorVars, webhookVars,
                   limiterVars, typingVars, instanceVars>>

\* A timer's callback runs: it deletes the entries of the key it was armed
\* for from both maps.
ExpiryFires(t) ==
    /\ t \in timers
    /\ t.due <= clock
    /\ timers' = timers \ {t}
    /\ store' = [store EXCEPT ![t.key] = Missing]
    /\ timeouts' = [timeouts EXCEPT ![t.key] = 0]
    /\ UNCHANGED <<armed, clock, lastSet, remote, connected, lastRead>>
    /\ UNCHANGED <<queueVars, retryVars, breakerVars, sessionVars, handlerVars,
                   operatorVars, webhookVars,
                   limiterVars, typingVars, instanceVars>>

\* MemoryStorage.del(key)
Del(k) ==
    /\ timers' = {t \in timers : t.id # timeouts[k]}
    /\ timeouts' = [timeouts EXCEPT ![k] = 0]
    /\ store' = [store EXCEPT ![k] = Missing]
    /\ lastSet' = [lastSet EXCEPT ![k] = NoSet]
    /\ UNCHANGED <<armed, clock, remote, connected, lastRead>>
    /\ UNCHANGED <<queueVars, retryVars, breakerVars, sessionVars, handlerVars,
                   operatorVars, webhookVars,
                   limiterVars, typingVars, instanceVars>>

\* MemoryStorage.get(key)
MemoryGet(k) ==
    /\ lastRead' = [by |-> "memory", held |-> store[k], down |-> FALSE,
                    result |-> Get(store, k)]
    /\ UNCHANGED <<store, timeouts, timers, armed, clock, lastSet, remote,
                   connected>>
    /\ UNCHANGED <<queueVars, retryVars, breakerVars, sessionVars, handlerVars,
                   operatorVars, webhookVars,
                   limiterVars, typingVars, instanceVars>>

\* A second passes.  A timer that is due runs before the clock moves on.
ClockTick ==
    /\ clock < MaxClock
    /\ \A t \in timers : t.due > clock
    /\ clock' = clock + 1
    /\ UNCHANGED <<store, timeouts, timers, armed, lastSet, remote, connected,
                   lastRead>>
    /\ UNCHANGED <<queueVars, retryVars, breakerVars, sessionVars, handlerVars,
                   operatorVars, webhookVars,
                   limiterVars, typingVars, instanceVars>>

\* A value is written to the networked store, or expires there.
RemoteChanges(k, v) ==
    /\ connected
    /\ remote' = [remote EXCEPT ![k] = v]
    /\ UNCHANGED <<store, timeouts, timers, armed, clock, lastSet, connected,
                   lastRead>>
    /\ UNCHANGED <<queueVars, retryVars, breakerVars, sessionVars, handlerVars,
                   operatorVars, webhookVars,
                   limiterVars, typingVars, instanceVars>>

\* The connection to the networked store is lost or comes back.
ConnectionChanges ==
    /\ connected' = ~connected
    /\ UNCHANGED <<store, timeouts, timers, armed, clock, lastSet, remote,
                   lastRead>>
    /\ UNCHANGED <<queueVars, retryVars, breakerVars, sessionVars, handlerVars,
                   operatorVars, webhookVars,
                   limiterVars, typingVars, instanceVars>>

\* RedisStorage.get(key): executeWithRetry returns what connection.get
\* returned (null for a key that is not there) and throws the last error
\* when every attempt failed.
RedisGet(k) ==
    /\ lastRead' = [by |-> "redis", held |-> remote[k], down |-> ~connected,
                    result |-> IF ~connected THEN "error"
                               ELSE IF remote[k] = Missing THEN "null"
                               ELSE remote[k]]
    /\ UNCHANGED <<store, timeouts, timers, armed, clock, lastSet, remote,
                   connected>>
    /\ UNCHANGED <<queueVars, retryVars, breakerVars, sessionVars, handlerVars,
                   operatorVars, webhookVars,
                   limiterVars, typingVars, instanceVars>>

\* BotService.getUserThread(chatId) reading the networked store: the value,
\* `threadId || null` without one, and null from the catch when the request
\* failed.
LookupThread(k) ==
    /\ lastRead' = [by |-> "lookup", held |-> remote[k], down |-> ~connected,
                    result |-> IF ~connected THEN "null"
                               ELSE IF remote[k] = Missing THEN "null"
                               ELSE remote[k]]
    /\ UNCHANGED <<store, timeouts, timers, armed, clock, lastSet, remote,
                   connected>>
    /\ UNCHANGED <<queueVars, retryVars, breakerVars, sessionVars, handlerVars,
                   operatorVars, webhookVars,
                   limiterVars, typingVars, instanceVars>>

InitStorage ==
    /\ store = [k \in Keys |-> Missing]
    /\ timeouts = [k \in Keys |-> 0]
    /\ timers = {}
    /\ armed = 0
    /\ clock = 0
    /\ lastSet = [k \in Keys |-> NoSet]
    /\ remote = [k \in Keys |-> Missing]
    /\ connected = TRUE
    /\ lastRead = NoRead

\* MemoryStorage alone.
NextMemory ==
    \/ \E k \in Keys :
        \/ \E v \in Values, ttl \in 1..MaxTtl : SetEx(k, v, ttl)
        \/ Del(k)
        \/ MemoryGet(k)
    \/ \E t \in timers : ExpiryFires(t)
    \/ ClockTick

\* Both storages and the session lookup over the networked one.
NextStorage ==
    \/ NextMemory
    \/ \E k \in Keys :
        \/ \E v \in Values \cup {Missing} : RemoteChanges(k, v)
        \/ RedisGet(k)
        \/ LookupThread(k)
    \/ ConnectionChanges

\* ----------------------------------------------------------- storage claims

\* C29: a get of a key that is not there returns null (undefined, for the
\* Map) and not an error, and a read of the networked store while it cannot
\* be reached ends in an error and not in the answer given for a key that is
\* not there.
C29_AbsentIsNullOutageIsError ==
    /\ (lastRead.by # "none" /\ ~lastRead.down /\ lastRead.held = Missing)
          => lastRead.result \in {"null", "undefined"}
    /\ (lastRead.by # "none" /\ lastRead.down) => lastRead.result = "error"

\* C30: a key is readable, with the value of its latest setEx, until ttl
\* seconds after that setEx, and gone once they have passed; it has at most
\* one armed timer; without a setEx in force (never written, or deleted) it
\* has no value and no timer.
C30_TtlFromLatestSetEx ==
    \A k \in Keys :
        LET s == lastSet[k]
        IN  /\ Cardinality(TimersOf(k)) <= 1
            /\ s = NoSet
                 => /\ ~Exists(store, k) /\ Get(store, k) = "undefined"
                    /\ timeouts[k] = 0 /\ TimersOf(k) = {}
            /\ (s # NoSet /\ clock < s.at + s.ttl)
                 => Exists(store, k) /\ Get(store, k) = s.value
            /\ (s # NoSet /\ clock > s.at + s.ttl)
                 => ~Exists(store, k) /\ Get(store, k) = "undefined"

\* A key written a second time is still readable at the instant its first
\* timer would have fired.
C30_RewrittenKeyWitness ==
    \E k \in Keys :
        /\ armed = 2 /\ timeouts[k] = 2
        /\ lastSet[k].at = 1 /\ clock = 2
        /\ \A j \in Keys \ {k} : lastSet[j] = NoSet /\ timeouts[j] = 0
        /\ Exists(store, k)

\* ------------------------------------------------------------- RateLimiter

\* The timestamps of ts that lie less than windowMs before t.
RECURSIVE Recent(_, _)
Recent(ts, t) ==
    IF ts = <<>> THEN <<>>
    ELSE IF t - Head(ts) < WindowMs THEN <<Head(ts)>> \o Recent(Tail(ts), t)
    ELSE Recent(Tail(ts), t)

\* isRateLimited(ip) refusing only above maxRequests.
IsRateLimitedAtAbove(reqs, ip, t) ==
    LET recentRequests == Recent(reqs[ip], t)
    IN  IF Len(recentRequests) > RateLimit
        THEN [limited |-> TRUE, requests |-> reqs]
        ELSE [limited |-> FALSE,
              requests |-> [reqs EXCEPT ![ip] = Append(recentRequests, t)]]

\* isRateLimited(ip) at time t: the returned value and the map afterwards.
\* A client without an entry reads as the empty list.
IsRateLimitedAt(reqs, ip, t) ==
    LET recentRequests == Recent(reqs[ip], t)
    IN  IF Len(recentRequests) >= RateLimit
        THEN [limited |-> TRUE, requests |-> reqs]
        ELSE [limited |-> FALSE,
              requests |-> [reqs EXCEPT ![ip] = Append(recentRequests, t)]]

\* One call of isRateLimited(ip).
CheckRateLimit(ip) ==
    /\ checks < MaxChecks
    /\ LET r == IsRateLimitedAt(requests, ip, now)
       IN  /\ requests' = r.requests
           /\ lastCheck' = [ip |-> ip, limited |-> r.limited]
           /\ admittedAt' = IF r.limited THEN admittedAt
                            ELSE [admittedAt EXCEPT ![ip] = Append(@, now)]
    /\ checks' = checks + 1
    /\ UNCHANGED <<queueVars, retryVars, breakerVars, sessionVars, handlerVars,
                   operatorVars, webhookVars, storageVars, typingVars, instanceVars>>

\* cleanup(): every list is pruned; an entry left empty is deleted.
Cleanup ==
    /\ requests' = [ip \in Clients |-> Recent(requests[ip], now)]
    /\ requests' # requests
    /\ UNCHANGED <<admittedAt, lastCheck, checks>>
    /\ UNCHANGED <<queueVars, retryVars, breakerVars, sessionVars, handlerVars,
                   operatorVars, webhookVars, storageVars, typingVars, instanceVars>>

InitLimiter ==
    /\ requests = [ip \in Clients |-> <<>>]
    /\ admittedAt = [ip \in Clients |-> <<>>]
    /\ lastCheck = NoCheck
    /\ checks = 0

NextLimiter ==
    \/ \E ip \in Clients : CheckRateLimit(ip)
    \/ Cleanup
    \/ Tick

\* ------------------------------------------------------ RateLimiter claims

\* Number of calls of client ip that returned false with a timestamp in
\* (t - windowMs, t].
AdmittedIn(ip, t) ==
    Cardinality({k \in 1..Len(admittedAt[ip]) :
                    admittedAt[ip][k] <= t /\ t - admittedAt[ip][k] < WindowMs})

\* C36: for every client and time t at most maxRequests calls with a
\* timestamp in (t - windowMs, t] returned false, and a call that returns
\* true records nothing.
C36_AtMostMaxPerWindow ==
    /\ [](\A ip \in Clients : \A t \in 0..MaxTime : AdmittedIn(ip, t) <= RateLimit)
    /\ [][(checks' # checks /\ lastCheck'.limited) => requests' = requests]_vars

\* C36 witness: a client used its whole quota, had a call refused, and was
\* admitted again once the window had moved on.
C36_AdmittedAfterRefusalWitness ==
    \E ip \in Clients :
        /\ Len(admittedAt[ip]) > RateLimit
        /\ lastCheck = [ip |-> ip, limited |-> FALSE]
        /\ checks > Len(admittedAt[ip])

\* -------------------------------------------------------- typing indicator

\* The interval callback up to its first await, entered with signal.aborted
\* = ab, without the check of the signal.
IterationStartNoCheck(ab) == [pc |-> "sending", on |-> TRUE, sends |-> 1]

\* The interval callback up to its first await: with the signal aborted it
\* clears the interval and returns, otherwise retryOperation invokes
\* sendChatAction.
IterationStart(ab) ==
    IF ab THEN [pc |-> "stopped", on |-> FALSE, sends |-> 0]
          ELSE [pc |-> "sending", on |-> TRUE, sends |-> 1]

\* keepTypingIndicator(chatId, signal, bot) with a bot: the interval is set.
\* The signal it is given may be aborted already.
KeepTypingIndicator(ab) ==
    /\ ~intervalOn
    /\ \A i \in Iterations : iterPc[i] = "idle"
    /\ typingSent = 0
    /\ ~aborted
    /\ intervalOn' = TRUE
    /\ aborted' = ab
    /\ UNCHANGED <<iterPc, tries, typingSent, atAbort>>
    /\ UNCHANGED <<queueVars, retryVars, breakerVars, sessionVars, handlerVars,
                   operatorVars, webhookVars, storageVars, limiterVars, instanceVars>>

\* The interval fires for the i-th time.
IntervalFires(i) ==
    /\ intervalOn
    /\ iterPc[i] = "idle"
    /\ \A j \in Iterations : j < i => iterPc[j] # "idle"
    /\ LET r == IterationStart(aborted)
       IN  /\ iterPc' = [iterPc EXCEPT ![i] = r.pc]
           /\ intervalOn' = r.on
           /\ typingSent' = typingSent + r.sends
           /\ tries' = [tries EXCEPT ![i] = r.sends]
    /\ UNCHANGED <<aborted, atAbort>>
    /\ UNCHANGED <<queueVars, retryVars, breakerVars, sessionVars, handlerVars,
                   operatorVars, webhookVars, storageVars, limiterVars, instanceVars>>

\* sendChatAction of firing i fulfilled: retryOperation returns and the
\* callback ends.
TypingDelivered(i) ==
    /\ iterPc[i] = "sending"
    /\ iterPc' = [iterPc EXCEPT ![i] = "done"]
    /\ UNCHANGED <<aborted, intervalOn, tries, typingSent, atAbort>>
    /\ UNCHANGED <<queueVars, retryVars, breakerVars, sessionVars, handlerVars,
                   operatorVars, webhookVars, storageVars, limiterVars, instanceVars>>

\* sendChatAction of firing i rejected: retryOperation sleeps before the
\* next attempt, or throws after the last one and the callback's catch
\* ends it.
TypingRejected(i) ==
    /\ iterPc[i] = "sending"
    /\ iterPc' = [iterPc EXCEPT ![i] =
                    IF tries[i] < TypingRetries THEN "waiting" ELSE "done"]
    /\ UNCHANGED <<aborted, intervalOn, tries, typingSent, atAbort>>
    /\ UNCHANGED <<queueVars, retryVars, breakerVars, sessionVars, handlerVars,
                   operatorVars, webhookVars, storageVars, limiterVars, instanceVars>>

\* The retry delay of firing i is over: retryOperation invokes
\* sendChatAction again; the signal is not looked at.
TypingRetried(i) ==
    /\ iterPc[i] = "waiting"
    /\ LoopContinues(tries[i] + 1, TypingRetries)
    /\ iterPc' = [iterPc EXCEPT ![i] = "sending"]
    /\ tries' = [tries EXCEPT ![i] = @ + 1]
    /\ typingSent' = typingSent + 1
    /\ UNCHANGED <<aborted, intervalOn, atAbort>>
    /\ UNCHANGED <<queueVars, retryVars, breakerVars, sessionVars, handlerVars,
                   operatorVars, webhookVars, storageVars, limiterVars, instanceVars>>

\* abortController.abort(), followed in the same run by the function
\* keepTypingIndicator returned (clearInterval) when the caller calls it, as
\* the message handler does.
Abort(stop) ==
    /\ ~aborted
    /\ intervalOn \/ \E i \in Iterations : iterPc[i] # "idle"
    /\ aborted' = TRUE
    /\ atAbort' = {i \in Iterations : iterPc[i] \in {"sending", "waiting"}}
    /\ intervalOn' = IF stop THEN FALSE ELSE intervalOn
    /\ UNCHANGED <<iterPc, tries, typingSent>>
    /\ UNCHANGED <<queueVars, retryVars, breakerVars, sessionVars, handlerVars,
                   operatorVars, webhookVars, storageVars, limiterVars, instanceVars>>

InitTyping ==
    /\ aborted = FALSE
    /\ intervalOn = FALSE
    /\ iterPc = [i \in Iterations |-> "idle"]
    /\ tries = [i \in Iterations |-> 0]
    /\ typingSent = 0
    /\ atAbort = {}

NextTyping ==
    \/ \E ab \in BOOLEAN : KeepTypingIndicator(ab)
    \/ \E i \in Iterations :
        \/ IntervalFires(i)
        \/ TypingDelivered(i)
        \/ TypingRejected(i)
        \/ TypingRetried(i)
    \/ \E stop \in BOOLEAN : Abort(stop)

\* ------------------------------------------------- typing indicator claims

\* C31: once the signal is aborted, every firing of the interval sends no
\* typing indicator and stops the timer; a firing in progress when the
\* signal is aborted is not interrupted: the abort leaves it where it is
\* and it goes on to its own end, retries included.
C31_CooperativeCancellation ==
    [][/\ \A i \in Iterations :
            /\ (aborted /\ iterPc[i] = "idle" /\ iterPc'[i] # "idle")
                   => /\ iterPc'[i] = "stopped"
                      /\ typingSent' = typingSent
                      /\ ~intervalOn'
            /\ iterPc[i] \in {"sending", "waiting"}
                   => iterPc'[i] \in {"sending", "waiting", "done"}
       /\ (~aborted /\ aborted') => iterPc' = iterPc]_vars

\* C31 witness: a firing that was in progress at the abort has run to its
\* end after a retry, and the next firing found the signal aborted.
C31_LateFiringStoppedWitness ==
    /\ aborted
    /\ \E i \in atAbort : iterPc[i] = "done" /\ tries[i] = TypingRetries
    /\ \E j \in Iterations : iterPc[j] = "stopped"

\* ---------------------------------------------------------- InstanceManager

\* delete().eq('hostname', h)
DeleteHost(tbl, h) ==
    [i \in Instances |-> IF tbl[i].present /\ tbl[i].host = h
                         THEN NoInstanceRow ELSE tbl[i]]

\* A row whose last_heartbeat is older than staleInstanceTimeout.
IsStale(row) == row.present /\ row.age > StaleTimeout

\* delete().lt('last_heartbeat', staleTime)
DeleteStale(tbl) ==
    [i \in Instances |-> IF IsStale(tbl[i]) THEN NoInstanceRow ELSE tbl[i]]

\* registerInstance() up to its first await, in a process on host h whose
\* dbService is or is not initialized: without a database it returns true
\* at once, otherwise it issues the delete of the host's rows.
RegisterInstance(i, h, ready) ==
    /\ instPc[i] = "off"
    /\ \A j \in Instances : j < i => instPc[j] # "off"
    /\ hostOf' = [hostOf EXCEPT ![i] = h]
    /\ dbReady' = [dbReady EXCEPT ![i] = ready]
    /\ instPc' = [instPc EXCEPT ![i] = IF ready THEN "delHost" ELSE "up"]
    /\ UNCHANGED <<isRegistered, heartbeatOn, beaten, botInstances>>
    /\ UNCHANGED <<queueVars, retryVars, breakerVars, sessionVars, handlerVars,
                   operatorVars, webhookVars, storageVars, limiterVars, typingVars>>

\* The delete by hostname came back; an error is only logged.
HostRowsDeleted(i, ok) ==
    /\ instPc[i] = "delHost"
    /\ botInstances' = IF ok THEN DeleteHost(botInstances, hostOf[i])
                             ELSE botInstances
    /\ instPc' = [instPc EXCEPT ![i] = "delStale"]
    /\ UNCHANGED <<hostOf, dbReady, isRegistered, heartbeatOn, beaten>>
    /\ UNCHANGED <<queueVars, retryVars, breakerVars, sessionVars, handlerVars,
                   operatorVars, webhookVars, storageVars, limiterVars, typingVars>>

\* The delete of stale rows came back; an error is only logged.
StaleRowsDeleted(i, ok) ==
    /\ instPc[i] = "delStale"
    /\ botInstances' = IF ok THEN DeleteStale(botInstances) ELSE botInstances
    /\ instPc' = [instPc EXCEPT ![i] = "insert"]
    /\ UNCHANGED <<hostOf, dbReady, isRegistered, heartbeatOn, beaten>>
    /\ UNCHANGED <<queueVars, retryVars, breakerVars, sessionVars, handlerVars,
                   operatorVars, webhookVars, storageVars, limiterVars, typingVars>>

\* The insert came back: with an error registerInstance returns false,
\* otherwise it starts the heartbeat, sets isRegistered and returns true.
\* instance_id is a fresh UUID and the only key of the table, so the row
\* of another instance never makes the insert fail.
RowInserted(i, ok) ==
    /\ instPc[i] = "insert"
    /\ IF ok
       THEN /\ botInstances' = [botInstances EXCEPT ![i] =
                                  [present |-> TRUE, host |-> hostOf[i], age |-> 0]]
            /\ heartbeatOn' = [heartbeatOn EXCEPT ![i] = TRUE]
            /\ isRegistered' = [isRegistered EXCEPT ![i] = TRUE]
            /\ instPc' = [instPc EXCEPT ![i] = "up"]
       ELSE /\ instPc' = [instPc EXCEPT ![i] = "refused"]
            /\ UNCHANGED <<botInstances, heartbeatOn, isRegistered>>
    /\ UNCHANGED <<hostOf, dbReady, beaten>>
    /\ UNCHANGED <<queueVars, retryVars, breakerVars, sessionVars, handlerVars,
                   operatorVars, webhookVars, storageVars, limiterVars, typingVars>>

\* The heartbeat interval fires: update last_heartbeat of the row with this
\* instance_id, if there is one; a failure is only logged.
Heartbeat(i, ok) ==
    /\ heartbeatOn[i]
    /\ ~beaten[i]
    /\ beaten' = [beaten EXCEPT ![i] = TRUE]
    /\ botInstances' = IF ok /\ botInstances[i].present
                       THEN [botInstances EXCEPT ![i].age = 0]
                       ELSE botInstances
    /\ UNCHANGED <<instPc, hostOf, dbReady, isRegistered, heartbeatOn>>
    /\ UNCHANGED <<queueVars, retryVars, breakerVars, sessionVars, handlerVars,
                   operatorVars, webhookVars, storageVars, limiterVars, typingVars>>

\* One heartbeat period passes, after every armed heartbeat has fired in it.
PeriodPasses ==
    /\ \A i \in Instances : heartbeatOn[i] => beaten[i]
    /\ \E i \in Instances : botInstances[i].present
    /\ botInstances' =
          [i \in Instances |->
             IF botInstances[i].present /\ botInstances[i].age <= StaleTimeout
             THEN [botInstances[i] EXCEPT !.age = @ + 1]
             ELSE botInstances[i]]
    /\ beaten' = [i \in Instances |-> FALSE]
    /\ UNCHANGED <<instPc, hostOf, dbReady, isRegistered, heartbeatOn>>
    /\ UNCHANGED <<queueVars, retryVars, breakerVars, sessionVars, handlerVars,
                   operatorVars, webhookVars, storageVars, limiterVars, typingVars>>

\* cleanupOnExit() up to its await: the heartbeat is stopped and, if the
\* instance is registered, the delete of its row is issued.
CleanupOnExit(i) ==
    /\ instPc[i] = "up"
    /\ heartbeatOn' = [heartbeatOn EXCEPT ![i] = FALSE]
    /\ instPc' = [instPc EXCEPT ![i] =
                    IF dbReady[i] /\ isRegistered[i] THEN "exiting" ELSE "down"]
    /\ UNCHANGED <<hostOf, dbReady, isRegistered, beaten, botInstances>>
    /\ UNCHANGED <<queueVars, retryVars, breakerVars, sessionVars, handlerVars,
                   operatorVars, webhookVars, storageVars, limiterVars, typingVars>>

\* The delete of the instance's own row came back; a failure is only logged.
Unregistered(i, ok) ==
    /\ instPc[i] = "exiting"
    /\ botInstances' = IF ok THEN [botInstances EXCEPT ![i] = NoInstanceRow]
                             ELSE botInstances
    /\ instPc' = [instPc EXCEPT ![i] = "down"]
    /\ UNCHANGED <<hostOf, dbReady, isRegistered, heartbeatOn, beaten>>
    /\ UNCHANGED <<queueVars, retryVars, breakerVars, sessionVars, handlerVars,
                   operatorVars, webhookVars, storageVars, limiterVars, typingVars>>

\* The process is killed: no handler runs, its timers are gone.
Killed(i) ==
    /\ instPc[i] = "up"
    /\ instPc' = [instPc EXCEPT ![i] = "killed"]
    /\ heartbeatOn' = [heartbeatOn EXCEPT ![i] = FALSE]
    /\ UNCHANGED <<hostOf, dbReady, isRegistered, beaten, botInstances>>
    /\ UNCHANGED <<queueVars, retryVars, breakerVars, sessionVars, handlerVars,
                   operatorVars, webhookVars, storageVars, limiterVars, typingVars>>

InitInstance ==
    /\ instPc = [i \in Instances |-> "off"]
    /\ hostOf = [i \in Instances |-> 0]
    /\ dbReady = [i \in Instances |-> FALSE]
    /\ isRegistered = [i \in Instances |-> FALSE]
    /\ heartbeatOn = [i \in Instances |-> FALSE]
    /\ beaten = [i \in Instances |-> FALSE]
    /\ botInstances = [i \in Instances |-> NoInstanceRow]

NextInstance ==
    \/ \E i \in Instances :
        \/ \E h \in Hosts, ready \in BOOLEAN : RegisterInstance(i, h, ready)
        \/ \E ok \in BOOLEAN :
            \/ HostRowsDeleted(i, ok)
            \/ StaleRowsDeleted(i, ok)
            \/ RowInserted(i, ok)
            \/ Heartbeat(i, ok)
            \/ Unregistered(i, ok)
        \/ CleanupOnExit(i)
        \/ Killed(i)
    \/ PeriodPasses

\* --------------------------------------------------- InstanceManager claims

\* The instance runs as a bot: registerInstance returned true to init.
BotRunning(i) == instPc[i] = "up"

\* The instance has a row whose heartbeat is within the staleness window.
Fresh(i) == botInstances[i].present /\ ~IsStale(botInstances[i])

\* C32, the part of the life cycle a finite run decides: the row of a
\* registered instance stays in the table until the instance shuts down
\* (cleanupOnExit deletes it) or its heartbeat is older than the staleness
\* window, a heartbeat that is written refreshes the timestamp, and
\* cleanupOnExit stops the heartbeat.
C32_RegistrationLifecycle ==
    /\ [](\A i \in Instances :
            /\ instPc[i] \in {"exiting", "down"} => ~heartbeatOn[i]
            /\ (BotRunning(i) /\ isRegistered[i]) => heartbeatOn[i])
    /\ [][\A i \in Instances :
            (botInstances[i].present /\ ~botInstances'[i].present)
                => (instPc[i] = "exiting" \/ IsStale(botInstances[i]))]_vars

\* C39: while one instance runs registered with a fresh heartbeat, no step
\* of another instance's registerInstance against the same table removes
\* the first one's row or ends with the other instance running as a bot:
\* its registerInstance returns false.
C39_SecondInstanceRefused ==
    [][\A i, j \in Instances :
          (/\ i # j
           /\ BotRunning(i) /\ isRegistered[i] /\ Fresh(i)
           /\ instPc[j] \in {"off", "delHost", "delStale", "insert"}
           /\ instPc'[j] # instPc[j]
           /\ dbReady'[j])
              => /\ botInstances'[i].present
                 /\ ~BotRunning(j)']_vars

\* ----------------------------------------------------------- specifications
\* The queue, the breaker, retryOperation and the message handling share no
\* state: each claim is checked under the specification that runs its
\* component from the common initial state.

Init ==
    /\ InitQueue /\ InitBreaker /\ InitSession /\ InitHandler /\ InitRetry
    /\ InitOperator /\ InitWebhook /\ InitStorage /\ InitLimiter
    /\ InitTyping /\ InitInstance

SpecQueue == Init /\ [][NextQueue]_vars

SpecBreaker == Init /\ [][NextBreaker]_vars

\* The registry on its own; the queue takes no step here, so it is given one
\* concurrency limit instead of each.
InitRegistry == Init /\ concurrency = 1

SpecSession == InitRegistry /\ [][NextSession]_vars

SpecHandler == InitRegistry /\ [][NextSession \/ NextHandler]_vars

SpecRetry == Init /\ [][NextRetry]_vars

SpecOperator == InitRegistry /\ [][NextSession \/ NextOperator]_vars

SpecWebhook == InitRegistry /\ [][NextWebhook]_vars

SpecMemory == InitRegistry /\ [][NextMemory]_vars

SpecStorage == InitRegistry /\ [][NextStorage]_vars

SpecLimiter == InitRegistry /\ [][NextLimiter]_vars

SpecTyping == InitRegistry /\ [][NextTyping]_vars

SpecInstance == InitRegistry /\ [][NextInstance]_vars

\* Position of chat c among the chats of S, in increasing order.
Rank(S, c) == Cardinality({d \in S : d <= c})

\* The registry as a run of /start and /handoff commands followed by cache
\* expiries leaves it: the chats of S have sent /start in increasing order,
\* the operator has sent /handoff for those of inHandoff, and only the
\* numeric-key cache entries of the chats of cached have not expired.
InitRelay ==
    /\ InitQueue /\ concurrency = 1
    /\ InitBreaker /\ InitHandler /\ InitRetry
    /\ InitOperator /\ InitWebhook /\ InitStorage /\ InitLimiter
    /\ InitTyping /\ InitInstance
    /\ \E S \in SUBSET Chats :
          \E cached \in SUBSET S, inHandoff \in SUBSET S :
            /\ Cardinality(S) <= MaxThreads
            /\ userThreads = [c \in Chats |-> IF c \in S THEN Rank(S, c) ELSE 0]
            /\ sessionCache =
                  [k \in KeyKinds |->
                     [c \in Chats |-> IF k = "num" /\ c \in cached
                                      THEN Rank(S, c) ELSE 0]]
            /\ handoffOf = [t \in Threads |->
                              \E c \in inHandoff : Rank(S, c) = t]
            /\ minted = Cardinality(S)
            /\ ownerOf = [t \in Threads |->
                            IF \E c \in S : Rank(S, c) = t
                            THEN CHOOSE c \in S : Rank(S, c) = t ELSE 0]
            /\ lastWrite = [c \in Chats |->
                              IF c \in inHandoff THEN "on" ELSE "none"]
    /\ startPc = [c \in Chats |-> "idle"]
    /\ lastCmd = NoCmd
    /\ assistantId \in BOOLEAN
    /\ dbSessions = [c \in Chats |-> NoRow]

\* The message handler alone, over every such registry.
SpecRelay == InitRelay /\ [][NextHandler]_vars

Next ==
    \/ NextQueue \/ NextBreaker \/ NextSession \/ NextHandler \/ NextRetry
    \/ NextOperator \/ NextWebhook \/ NextStorage \/ NextLimiter
    \/ NextTyping \/ NextInstance

Spec == Init /\ [][Next]_vars

====
